---- MODULE Spec2Model ----
(***************************************************************************)
(* A model of the tetris-kids simulation core: PieceGenerator,             *)
(* CollisionDetector, GameLogic, and the parts of StateManager and          *)
(* GameEngine that GameLogic talks to.                                      *)
(*                                                                         *)
(* Conventions.                                                            *)
(*  - Arrays are sequences; the code's 0-based index k is position k+1.    *)
(*  - Board cells hold 0 (empty) or a colour tag.  The code's tags are the *)
(*    hex strings of PIECES[type].color; the model uses the position of    *)
(*    the type in PIECE_TYPES (1..7), which keeps them distinct.           *)
(*  - Times are counted in thirds of a millisecond, so that the engine's   *)
(*    fixed step 1000/60 ms is the integer 50.  Ms(n) converts.            *)
(*  - The operations of GameLogic are operators from "world" records       *)
(*    [gl, pg, sm, engine, events, ret] to world records, so that a call   *)
(*    chain (hardDrop -> lockPiece -> spawnNewPiece -> getNextPiece) is    *)
(*    one step.  Math.random is an argument: the fresh bag of a refill.    *)
(***************************************************************************)
EXTENDS Integers, Sequences, FiniteSets, TLC

VARIABLES
  gl,      \* GameLogic instance: board, pieces, timers, flags, statistics
  pg,      \* gl.pieceGenerator: bag, nextBag, pieceHistory
  sm,      \* StateManager.state (the fields the core reads and writes)
  engine,  \* GameEngine fields
  events,  \* events GameLogic emitted during the last operation, in order
  ret      \* what the last operation returned, or that it threw

vars == <<gl, pg, sm, engine, events, ret>>

----------------------------------------------------------------------------
(* Constants.js *)

WIDTH == 10
HEIGHT == 20

BASE_FALL_SPEED == 1000
SPEED_INCREASE == 50
MIN_FALL_SPEED == 100
LOCK_DELAY == 500
LINE_CLEAR_DELAY == 300

SCORE_SINGLE == 100
SCORE_DOUBLE == 300
SCORE_TRIPLE == 500
SCORE_TETRIS == 800
SCORE_SOFT_DROP == 1
SCORE_HARD_DROP == 2
LINES_PER_LEVEL == 10

FEATURE_GHOST_PIECE == TRUE
FEATURE_HOLD_PIECE == FALSE
FEATURE_WALL_KICKS == TRUE
FEATURE_T_SPIN_DETECTION == FALSE

PIECE_TYPES == <<"I", "O", "T", "S", "Z", "J", "L">>

PieceShape(t) ==
  CASE t = "I" -> << <<0,0,0,0>>, <<1,1,1,1>>, <<0,0,0,0>>, <<0,0,0,0>> >>
    [] t = "O" -> << <<1,1>>, <<1,1>> >>
    [] t = "T" -> << <<0,1,0>>, <<1,1,1>>, <<0,0,0>> >>
    [] t = "S" -> << <<0,1,1>>, <<1,1,0>>, <<0,0,0>> >>
    [] t = "Z" -> << <<1,1,0>>, <<0,1,1>>, <<0,0,0>> >>
    [] t = "J" -> << <<1,0,0>>, <<1,1,1>>, <<0,0,0>> >>
    [] t = "L" -> << <<0,0,1>>, <<1,1,1>>, <<0,0,0>> >>

PieceColor(t) == CHOOSE k \in 1..Len(PIECE_TYPES) : PIECE_TYPES[k] = t

Ms(n) == 3 * n

Null == [type |-> "null"]

----------------------------------------------------------------------------
(* PieceGenerator *)

cloneMatrix(matrix) == [r \in 1..Len(matrix) |-> [c \in 1..Len(matrix[r]) |-> matrix[r][c]]]

reverseRow(row) == [c \in 1..Len(row) |-> row[Len(row) + 1 - c]]

transpose(matrix) ==
  [c \in 1..Len(matrix[1]) |-> [r \in 1..Len(matrix) |-> matrix[r][c]]]

rotateMatrix(matrix, clockwise) ==
  IF clockwise
    THEN LET transposed == transpose(matrix)
         IN [r \in 1..Len(transposed) |-> reverseRow(transposed[r])]
    ELSE LET reversed == [r \in 1..Len(matrix) |-> reverseRow(matrix[r])]
         IN transpose(reversed)

createPiece(pieceType) ==
  [ type     |-> pieceType,
    shape    |-> cloneMatrix(PieceShape(pieceType)),
    color    |-> PieceColor(pieceType),
    x        |-> (WIDTH - Len(PieceShape(pieceType)[1])) \div 2,
    y        |-> 0,
    rotation |-> 0 ]

generatorRotatePiece(piece, clockwise) ==
  [piece EXCEPT !.shape = rotateMatrix(piece.shape, clockwise),
                !.rotation = IF clockwise THEN (piece.rotation + 1) % 4
                                          ELSE (piece.rotation + 3) % 4]

(* The swap written as two assignments in a row, without a temporary.      *)
swapInPlace(bag, i, j) == [bag EXCEPT ![i + 1] = bag[j + 1]]

swap(bag, i, j) == [bag EXCEPT ![i + 1] = bag[j + 1], ![j + 1] = bag[i + 1]]

(* The Fisher-Yates loop of generateRandomBag, for i = Len-1 down to 1;    *)
(* draws[i] is the value of Math.floor(Math.random() * (i + 1)).           *)
RECURSIVE fisherYates(_, _, _)
fisherYates(bag, i, draws) ==
  IF i > 0 THEN fisherYates(swap(bag, i, draws[i]), i - 1, draws) ELSE bag

(* How many iterations of the shuffle draw freely; the later ones draw     *)
(* j = i, which swaps nothing.                                             *)
RandFree == 1

RandomDraws ==
  { d \in [1..(Len(PIECE_TYPES) - 1) -> 0..(Len(PIECE_TYPES) - 1)] :
      \A i \in DOMAIN d :
        /\ d[i] <= i
        /\ (i <= Len(PIECE_TYPES) - 1 - RandFree => d[i] = i) }

generateRandomBag ==
  { fisherYates(PIECE_TYPES, Len(PIECE_TYPES) - 1, d) : d \in RandomDraws }

(* getNextPiece taking the drawn piece off the front of the bag and one    *)
(* more piece off its end.                                                 *)
getNextPieceDropLast(g, fresh) ==
  LET refilled == IF Len(g.bag) = 0
                    THEN [g EXCEPT !.bag = g.nextBag, !.nextBag = fresh]
                    ELSE g
      pieceType == Head(refilled.bag)
      history == Append(refilled.pieceHistory, pieceType)
  IN [ gen   |-> [refilled EXCEPT
                    !.bag = SubSeq(refilled.bag, 2, Len(refilled.bag) - 1),
                    !.pieceHistory = IF Len(history) > 50 THEN Tail(history)
                                                          ELSE history],
       piece |-> createPiece(pieceType) ]

(* getNextPiece on generator state g; fresh is the bag refillNextBag       *)
(* would generate.  Returns the new generator state and the piece.         *)
getNextPiece(g, fresh) ==
  LET refilled == IF Len(g.bag) = 0
                    THEN [g EXCEPT !.bag = g.nextBag, !.nextBag = fresh]
                    ELSE g
      pieceType == Head(refilled.bag)
      history == Append(refilled.pieceHistory, pieceType)
  IN [ gen   |-> [refilled EXCEPT
                    !.bag = Tail(refilled.bag),
                    !.pieceHistory = IF Len(history) > 50 THEN Tail(history)
                                                          ELSE history],
       piece |-> createPiece(pieceType) ]

(* previewNext's loop over its copies of the two bags; shuffles are the    *)
(* bags its own calls of generateRandomBag return, in order.               *)
RECURSIVE previewFrom(_, _, _, _)
previewFrom(bagCopy, nextBagCopy, count, shuffles) ==
  IF count = 0 THEN <<>>
  ELSE LET refill == Len(bagCopy) = 0
           bagNow == IF refill THEN nextBagCopy ELSE bagCopy
           nextBagNow == IF refill THEN Head(shuffles) ELSE nextBagCopy
           shufflesLeft == IF refill THEN Tail(shuffles) ELSE shuffles
           pieceType == Head(bagNow)
       IN <<[type |-> pieceType, shape |-> PieceShape(pieceType),
             color |-> PieceColor(pieceType)]>>
            \o previewFrom(Tail(bagNow), nextBagNow, count - 1, shufflesLeft)

previewNext(g, count, shuffles) == previewFrom(g.bag, g.nextBag, count, shuffles)

standardOffsets(key) ==
  CASE key = <<0, 1>> -> << <<-1, 0>>, <<-1, -1>>, <<0, 2>>, <<-1, 2>> >>
    [] key = <<1, 0>> -> << <<1, 0>>, <<1, 1>>, <<0, -2>>, <<1, -2>> >>
    [] key = <<1, 2>> -> << <<1, 0>>, <<1, 1>>, <<0, -2>>, <<1, -2>> >>
    [] key = <<2, 1>> -> << <<-1, 0>>, <<-1, -1>>, <<0, 2>>, <<-1, 2>> >>
    [] key = <<2, 3>> -> << <<1, 0>>, <<1, -1>>, <<0, 2>>, <<1, 2>> >>
    [] key = <<3, 2>> -> << <<-1, 0>>, <<-1, 1>>, <<0, -2>>, <<-1, -2>> >>
    [] key = <<3, 0>> -> << <<-1, 0>>, <<-1, 1>>, <<0, -2>>, <<-1, -2>> >>
    [] key = <<0, 3>> -> << <<1, 0>>, <<1, -1>>, <<0, 2>>, <<1, 2>> >>
    [] OTHER -> << <<0, 0>> >>

iPieceOffsets(key) ==
  CASE key = <<0, 1>> -> << <<-2, 0>>, <<1, 0>>, <<-2, 1>>, <<1, -2>> >>
    [] key = <<1, 0>> -> << <<2, 0>>, <<-1, 0>>, <<2, -1>>, <<-1, 2>> >>
    [] key = <<1, 2>> -> << <<-1, 0>>, <<2, 0>>, <<-1, -2>>, <<2, 1>> >>
    [] key = <<2, 1>> -> << <<1, 0>>, <<-2, 0>>, <<1, 2>>, <<-2, -1>> >>
    [] key = <<2, 3>> -> << <<2, 0>>, <<-1, 0>>, <<2, -1>>, <<-1, 2>> >>
    [] key = <<3, 2>> -> << <<-2, 0>>, <<1, 0>>, <<-2, 1>>, <<1, -2>> >>
    [] key = <<3, 0>> -> << <<1, 0>>, <<-2, 0>>, <<1, 2>>, <<-2, -1>> >>
    [] key = <<0, 3>> -> << <<-1, 0>>, <<2, 0>>, <<-1, -2>>, <<2, 1>> >>
    [] OTHER -> << <<0, 0>> >>

(* getWallKickOffsets with one table for every piece type.                 *)
getWallKickOffsetsShared(pieceType, fromRotation, toRotation) ==
  standardOffsets(<<fromRotation, toRotation>>)

getWallKickOffsets(pieceType, fromRotation, toRotation) ==
  IF pieceType = "I" THEN iPieceOffsets(<<fromRotation, toRotation>>)
                     ELSE standardOffsets(<<fromRotation, toRotation>>)

----------------------------------------------------------------------------
(* CollisionDetector *)

(* The scan with the test for rows above the board placed in front of the *)
(* test of the column.                                                     *)
RECURSIVE scanValidRowFirst(_, _, _, _, _)
scanValidRowFirst(piece, board, testX, testY, n) ==
  LET rows == Len(piece.shape)
      cols == Len(piece.shape[1])
      y == n \div cols
      x == n % cols
      boardX == testX + x
      boardY == testY + y
  IN IF n >= rows * cols THEN TRUE
     ELSE IF piece.shape[y + 1][x + 1] = 0
            THEN scanValidRowFirst(piece, board, testX, testY, n + 1)
     ELSE IF boardY < 0 THEN scanValidRowFirst(piece, board, testX, testY, n + 1)
     ELSE IF boardX < 0 \/ boardX >= WIDTH THEN FALSE
     ELSE IF boardY >= HEIGHT THEN FALSE
     ELSE IF boardY + 1 \in DOMAIN board /\ board[boardY + 1][boardX + 1] # 0
            THEN FALSE
     ELSE scanValidRowFirst(piece, board, testX, testY, n + 1)

(* The scan of isValidPosition over the shape's cells in row-major order,  *)
(* from the n-th cell on (n counts from 0), with its early returns.        *)
RECURSIVE scanValid(_, _, _, _, _)
scanValid(piece, board, testX, testY, n) ==
  LET rows == Len(piece.shape)
      cols == Len(piece.shape[1])
      y == n \div cols
      x == n % cols
      boardX == testX + x
      boardY == testY + y
  IN IF n >= rows * cols THEN TRUE
     ELSE IF piece.shape[y + 1][x + 1] = 0
            THEN scanValid(piece, board, testX, testY, n + 1)
     ELSE IF boardX < 0 \/ boardX >= WIDTH THEN FALSE
     ELSE IF boardY >= HEIGHT THEN FALSE
     ELSE IF boardY < 0 THEN scanValid(piece, board, testX, testY, n + 1)
     ELSE IF boardY + 1 \in DOMAIN board /\ board[boardY + 1][boardX + 1] # 0
            THEN FALSE
     ELSE scanValid(piece, board, testX, testY, n + 1)

isValidPosition(piece, board, offsetX, offsetY) ==
  scanValid(piece, board, piece.x + offsetX, piece.y + offsetY, 0)

directionOffset(direction) ==
  CASE direction = "left" -> <<-1, 0>>
    [] direction = "right" -> <<1, 0>>
    [] direction = "down" -> <<0, 1>>
    [] OTHER -> <<0, 0>>

(* canMove that tests the moves down only. *)
canMoveSideways(piece, board, direction) ==
  \/ direction # "down"
  \/ isValidPosition(piece, board, 0, 1)

canMove(piece, board, direction) ==
  isValidPosition(piece, board, directionOffset(direction)[1],
                  directionOffset(direction)[2])

(* The loop of canRotate over the wall kick offsets, from the k-th on.     *)
RECURSIVE tryKicks(_, _, _, _)
tryKicks(rotatedPiece, board, offsets, k) ==
  IF k > Len(offsets) THEN Null
  ELSE LET testPiece == [rotatedPiece EXCEPT !.x = rotatedPiece.x + offsets[k][1],
                                             !.y = rotatedPiece.y + offsets[k][2]]
       IN IF isValidPosition(testPiece, board, 0, 0)
            THEN testPiece
            ELSE tryKicks(rotatedPiece, board, offsets, k + 1)

canRotate(piece, board, rotatedPiece) ==
  IF isValidPosition(rotatedPiece, board, 0, 0) THEN rotatedPiece
  ELSE IF FEATURE_WALL_KICKS
    THEN tryKicks(rotatedPiece, board,
                  getWallKickOffsets(piece.type, piece.rotation, rotatedPiece.rotation), 1)
    ELSE Null

hasLanded(piece, board) == ~canMove(piece, board, "down")

(* The loop testing the position at distance instead of distance + 1.     *)
RECURSIVE getHardDropDistancePast(_, _, _)
getHardDropDistancePast(piece, board, distance) ==
  IF isValidPosition(piece, board, 0, distance)
    THEN getHardDropDistancePast(piece, board, distance + 1)
    ELSE distance

RECURSIVE getHardDropDistanceFrom(_, _, _)
getHardDropDistanceFrom(piece, board, distance) ==
  IF isValidPosition(piece, board, 0, distance + 1)
    THEN getHardDropDistanceFrom(piece, board, distance + 1)
    ELSE distance

getHardDropDistance(piece, board) == getHardDropDistanceFrom(piece, board, 0)

(* The ghost's loop testing the ghost's own position instead of the row    *)
(* below it.                                                               *)
RECURSIVE getGhostPiecePast(_, _)
getGhostPiecePast(piece, board) ==
  IF isValidPosition(piece, board, 0, 0)
    THEN getGhostPiecePast([piece EXCEPT !.y = piece.y + 1], board)
    ELSE piece

RECURSIVE getGhostPiece(_, _)
getGhostPiece(piece, board) ==
  IF isValidPosition(piece, board, 0, 1)
    THEN getGhostPiece([piece EXCEPT !.y = piece.y + 1], board)
    ELSE piece

isWithinBounds(x, y) == x >= 0 /\ x < WIDTH /\ y >= 0 /\ y < HEIGHT

isLineFull(board, lineY) ==
  IF lineY < 0 \/ lineY >= HEIGHT THEN FALSE
  ELSE \A c \in 1..Len(board[lineY + 1]) : board[lineY + 1][c] # 0

(* The rows getFullLines pushes, in ascending order, from row y on.        *)
RECURSIVE getFullLinesFrom(_, _)
getFullLinesFrom(board, y) ==
  IF y >= HEIGHT THEN <<>>
  ELSE IF isLineFull(board, y) THEN <<y>> \o getFullLinesFrom(board, y + 1)
  ELSE getFullLinesFrom(board, y + 1)

getFullLines(board) == getFullLinesFrom(board, 0)

(* isGameOver answering that the spawn position is always free.            *)
collisionNeverGameOver(piece, board) == FALSE

collisionIsGameOver(piece, board) == ~isValidPosition(piece, board, 0, 0)

(* checkTSpin: the four diagonal corners around the centre of the T's box, *)
(* in the order top-left, top-right, bottom-left, bottom-right.            *)
tSpinCorners(piece) ==
  LET centerX == piece.x + 1
      centerY == piece.y + 1
  IN << [x |-> centerX - 1, y |-> centerY - 1],
        [x |-> centerX + 1, y |-> centerY - 1],
        [x |-> centerX - 1, y |-> centerY + 1],
        [x |-> centerX + 1, y |-> centerY + 1] >>

cornerIsOccupied(corner, board) ==
  \/ corner.x < 0
  \/ corner.x >= WIDTH
  \/ corner.y >= HEIGHT
  \/ (corner.y >= 0 /\ board[corner.y + 1][corner.x + 1] # 0)

(* Every rotation given the front corners of rotation 0.                   *)
isFrontCornerOfSpawn(rotation, cornerIndex) == cornerIndex \in {0, 1}

isFrontCorner(rotation, cornerIndex) ==
  cornerIndex \in << {0, 1}, {1, 3}, {2, 3}, {0, 2} >>[rotation + 1]

checkTSpin(piece, board, wasRotation) ==
  IF piece.type # "T" \/ ~wasRotation THEN [isTSpin |-> FALSE]
  ELSE LET corners == tSpinCorners(piece)
           occupied == { index \in 0..3 : cornerIsOccupied(corners[index + 1], board) }
           front == { index \in occupied : isFrontCorner(piece.rotation, index) }
           occupiedCorners == Cardinality(occupied)
           frontCorners == Cardinality(front)
           isTSpin == occupiedCorners >= 3 /\ frontCorners >= 2
       IN [ isTSpin |-> isTSpin,
            occupiedCorners |-> occupiedCorners,
            frontCorners |-> frontCorners,
            type |-> IF isTSpin
                       THEN (IF occupiedCorners = 4 THEN "T-Spin" ELSE "T-Spin Mini")
                       ELSE "null" ]

----------------------------------------------------------------------------
(* StateManager *)

(* score and lines are JavaScript values: scoreKind and linesKind say      *)
(* whether the field holds a number, undefined or NaN, and the field       *)
(* itself is the number, 0 when it holds none.                             *)
smReset ==
  [ gameState |-> "menu", score |-> 0, level |-> 1, lines |-> 0,
    scoreKind |-> "number", linesKind |-> "number",
    isPaused |-> FALSE, isGameOver |-> FALSE ]

scorePoints(action) ==
  CASE action = "single" -> SCORE_SINGLE
    [] action = "double" -> SCORE_DOUBLE
    [] action = "triple" -> SCORE_TRIPLE
    [] action = "tetris" -> SCORE_TETRIS
    [] action = "softDrop" -> SCORE_SOFT_DROP
    [] action = "hardDrop" -> SCORE_HARD_DROP
    [] OTHER -> -1

(* checkLevelUp without the + 1 of the level formula.                      *)
checkLevelUpLate(s) ==
  LET newLevel == s.lines \div LINES_PER_LEVEL
  IN IF newLevel > s.level THEN [s EXCEPT !.level = newLevel] ELSE s

checkLevelUp(s) ==
  LET newLevel == (s.lines \div LINES_PER_LEVEL) + 1
  IN IF newLevel > s.level THEN [s EXCEPT !.level = newLevel] ELSE s

(* undefined + n and NaN + n are NaN, and NaN > level is false in          *)
(* checkLevelUp.                                                           *)
smUpdateScore(s, action, linesCleared) ==
  IF scorePoints(action) < 0 THEN s
  ELSE LET scored ==
             IF s.scoreKind = "number"
               THEN [s EXCEPT !.score = s.score + scorePoints(action) * s.level]
               ELSE [s EXCEPT !.scoreKind = "NaN"]
       IN IF linesCleared > 0
            THEN (IF scored.linesKind = "number"
                    THEN checkLevelUp([scored EXCEPT !.lines = scored.lines + linesCleared])
                    ELSE [scored EXCEPT !.linesKind = "NaN"])
            ELSE scored

max(a, b) == IF a >= b THEN a ELSE b

getFallSpeed(s) ==
  max(MIN_FALL_SPEED, BASE_FALL_SPEED - SPEED_INCREASE * (s.level - 1))

smStartGame == [smReset EXCEPT !.gameState = "playing"]

smGameOver(s) == [s EXCEPT !.gameState = "gameOver", !.isGameOver = TRUE]

GAME_STATES == {"menu", "playing", "paused", "gameOver", "loading"}

(* setState(newState): the fields of newState replace the state's.         *)
setState(s, newState) ==
  [field \in DOMAIN s |->
     IF field \in DOMAIN newState THEN newState[field] ELSE s[field]]

(* togglePause with the flag flipped whatever the game state is.           *)
togglePauseAnywhere(s) ==
  IF s.gameState = "playing"
    THEN [s EXCEPT !.gameState = "paused", !.isPaused = TRUE]
  ELSE IF s.gameState = "paused"
    THEN [s EXCEPT !.gameState = "playing", !.isPaused = FALSE]
  ELSE [s EXCEPT !.isPaused = ~s.isPaused]

togglePause(s) ==
  IF s.gameState = "playing"
    THEN [s EXCEPT !.gameState = "paused", !.isPaused = TRUE]
  ELSE IF s.gameState = "paused"
    THEN [s EXCEPT !.gameState = "playing", !.isPaused = FALSE]
  ELSE s

(* What updateScore emits: levelUp from checkLevelUp when the level rose,  *)
(* then scoreUpdated; nothing for an action the switch does not know.      *)
smUpdateScoreEmits(s, action, linesCleared) ==
  IF scorePoints(action) < 0 THEN <<>>
  ELSE (IF smUpdateScore(s, action, linesCleared).level # s.level
          THEN <<[name |-> "levelUp", count |-> smUpdateScore(s, action, linesCleared).level,
                  action |-> action]>>
          ELSE <<>>)
       \o <<[name |-> "scoreUpdated", count |-> linesCleared, action |-> action]>>

----------------------------------------------------------------------------
(* ScoreManager: its own score, level and lines, and the counters of the   *)
(* bonuses.                                                                *)

scoreManagerReset ==
  [ score |-> 0, level |-> 1, lines |-> 0,
    consecutiveTetris |-> 0, consecutiveClears |-> 0 ]

min(a, b) == IF a <= b THEN a ELSE b

(* The result of calculateScore; level is the level before the lines of    *)
(* this clear are counted. Math.floor(basePoints * Math.max(1, level *     *)
(* 0.8)) is the integer quotient for every level and base of the table.    *)
calculateScore(m, action, tSpin) ==
  LET consecutiveTetris ==
        IF action = "tetris" THEN m.consecutiveTetris + 1
        ELSE IF action \in {"single", "double", "triple"} THEN 0
        ELSE m.consecutiveTetris
      base == CASE action = "single" -> SCORE_SINGLE
                [] action = "double" -> SCORE_DOUBLE
                [] action = "triple" -> SCORE_TRIPLE
                [] action = "tetris" -> SCORE_TETRIS
                [] OTHER -> 0
      actionBonus == CASE action = "double" -> 50
                       [] action = "triple" -> 100
                       [] action = "tetris" ->
                            200 + (IF consecutiveTetris > 1
                                     THEN consecutiveTetris * 100 ELSE 0)
                       [] OTHER -> 0
      basePoints == (base * max(10, 8 * m.level)) \div 10
      consecutiveClears == m.consecutiveClears + 1
      streakBonus == IF consecutiveClears >= 3
                       THEN min(consecutiveClears * 25, 200) ELSE 0
      bonusPoints == actionBonus + streakBonus + (IF tSpin THEN 400 ELSE 0)
  IN [ totalPoints |-> basePoints + bonusPoints, level |-> m.level,
       consecutiveTetris |-> consecutiveTetris,
       consecutiveClears |-> consecutiveClears ]

(* ScoreManager.updateScore once calculateScore has returned scoreResult:  *)
(* the manager afterwards.                                                 *)
scoreManagerScored(m, linesCleared, scoreResult) ==
  [ score |-> m.score + scoreResult.totalPoints,
    lines |-> m.lines + linesCleared,
    level |-> max(m.level, ((m.lines + linesCleared) \div LINES_PER_LEVEL) + 1),
    consecutiveTetris |-> scoreResult.consecutiveTetris,
    consecutiveClears |-> scoreResult.consecutiveClears ]

scoreManagerUpdateScore(m, action, linesCleared, tSpin) ==
  scoreManagerScored(m, linesCleared, calculateScore(m, action, tSpin))

updateDropScore(m, dropType, distance) ==
  [m EXCEPT !.score = m.score + (IF dropType = "soft" THEN SCORE_SOFT_DROP
                                 ELSE SCORE_HARD_DROP) * distance]

----------------------------------------------------------------------------
(* GameEngine: the listeners it registers on StateManager *)

(* The engine's times are JavaScript numbers, IEEE doubles. A double x of  *)
(* the range the loop works in (below 128 ms in size, a whole number of    *)
(* units of 2^-48 ms) is written as the pair hi, lo with                   *)
(*     x = (hi * 2^46 + lo) / 3 units:                                     *)
(* hi counts twelfths of a millisecond, lo thirds of a unit, and hi + lo   *)
(* is a multiple of 3. 1000 / 60 evaluates to the double                   *)
(* 16.666666666666668 = (200 * 2^46 + 1) / 3 units, and 100 to 1200, 0.    *)
Double(hi, lo) == [hi |-> hi, lo |-> lo]

fixedTimeStepDouble == Double(200, 1)

(* a >= b *)
atLeast(a, b) == a.hi > b.hi \/ (a.hi = b.hi /\ a.lo >= b.lo)

(* The double nearest to x, ties to the even mantissa: a double is a whole *)
(* number of units below 32 ms, of 2 units from 32 ms on and of 4 units    *)
(* from 64 ms on. With N the number of units of x, 3 * lo is N modulo 8.   *)
roundDouble(x) ==
  LET negative == x.hi < 0 \/ (x.hi = 0 /\ x.lo < 0)
      size == IF negative THEN Double(-x.hi, -x.lo) ELSE x
      ulp == IF atLeast(size, Double(768, 0)) THEN 4
             ELSE IF atLeast(size, Double(384, 0)) THEN 2 ELSE 1
      n == (3 * size.lo) % (2 * ulp)
      r == n % ulp
      shift == IF r = 0 THEN 0
               ELSE IF 2 * r < ulp THEN -r
               ELSE IF 2 * r > ulp THEN ulp - r
               ELSE IF n = r THEN -r ELSE ulp - r
      rounded == Double(size.hi, size.lo + 3 * shift)
  IN IF negative THEN Double(-rounded.hi, -rounded.lo) ELSE rounded

(* a + b and a - b as the doubles the additions return *)
plus(a, b) == roundDouble(Double(a.hi + b.hi, a.lo + b.lo))

minus(a, b) == roundDouble(Double(a.hi - b.hi, a.lo - b.lo))

(* The engine after its constructor. sinceLast is performance.now() less   *)
(* lastTime; depth counts the calls of gameLoop on the stack and           *)
(* overflowAt says where a stack overflow of the frame strikes. pending    *)
(* counts the callbacks requestAnimationFrame holds for the next frame and *)
(* due those of the frame being run that have not fired yet; frameId is    *)
(* "next" or "due" while this.frameId names the newest of them, "none"     *)
(* when it is null or names a callback that has fired; frameRequested says *)
(* that a callback is waiting. Kept                                        *)
(* for the record: frameUpdates, the updates of the systems run since the  *)
(* last frame began; plain, that no frame was clamped and the loop never   *)
(* paused, stopped or entered from inside; total and updates, the time put *)
(* into the accumulator and the updates run since construction, as long as *)
(* the run is plain.                                                       *)
engineConstructed ==
  [ isRunning |-> FALSE, frameRequested |-> FALSE, inputBuffer |-> <<>>,
    pending |-> 0, due |-> 0, frameId |-> "none",
    accumulator |-> Double(0, 0), sinceLast |-> Double(0, 0),
    depth |-> 0, overflowAt |-> "resume",
    frameUpdates |-> 0, total |-> Double(0, 0), updates |-> 0, plain |-> TRUE,
    scoreManager |-> scoreManagerReset ]

(* this.frameId = requestAnimationFrame(...) *)
requestFrame(e) ==
  [e EXCEPT !.pending = @ + 1, !.frameId = "next", !.frameRequested = TRUE]

(* if (this.frameId) { cancelAnimationFrame(this.frameId); this.frameId =  *)
(* null }: the callback frameId names is taken back if it has not fired.   *)
cancelFrame(e) ==
  LET pending == IF e.frameId = "next" THEN e.pending - 1 ELSE e.pending
      due == IF e.frameId = "due" THEN e.due - 1 ELSE e.due
  IN [e EXCEPT !.pending = pending, !.due = due, !.frameId = "none",
               !.frameRequested = pending + due > 0]

(* pause() and stop(): the frame requested last is cancelled. *)
enginePause(e) ==
  [cancelFrame(e) EXCEPT !.isRunning = FALSE, !.plain = FALSE,
                         !.total = Double(0, 0), !.updates = 0]

(* start() from an event handler: lastTime is now, and gameLoop() finds    *)
(* the accumulator below the step and requests the next frame.             *)
engineStart(e) ==
  IF e.isRunning THEN e
  ELSE [requestFrame(e) EXCEPT !.isRunning = TRUE,
                               !.sinceLast = Double(0, 0)]

(* stateManager.gameOver(), with the engine's 'gameOver' listener          *)
(* (handleGameOver -> pause) run by its emit.                              *)
stateManagerGameOver(w) ==
  [w EXCEPT !.sm = smGameOver(w.sm), !.engine = enginePause(w.engine)]

----------------------------------------------------------------------------
(* GameLogic *)

Event(name, count, action) == [name |-> name, count |-> count, action |-> action]

emit(w, event) == [w EXCEPT !.events = Append(w.events, event)]

(* The listener GameEngine.setupSystemInteractions registers on the score  *)
(* manager for 'scoreUpdated': setState({score: data.totalScore, level:    *)
(* data.level, lines: data.totalLines}); data.totals says whether the      *)
(* object has totalScore and totalLines.                                   *)
scoreUpdated(s, data) ==
  setState(s, [score |-> IF data.totals THEN data.totalScore ELSE 0,
               scoreKind |-> IF data.totals THEN "number" ELSE "undefined",
               level |-> data.level,
               lines |-> IF data.totals THEN data.totalLines ELSE 0,
               linesKind |-> IF data.totals THEN "number" ELSE "undefined"])

(* What follows scoreManager.updateScore in the 'linesClearing' listener:  *)
(* updateScore has emitted 'scoreUpdated' with the totals; then the engine *)
(* emits 'scoreUpdated' with the result of calculateScore, whose level is  *)
(* the one before the clear, to every system, the score manager among      *)
(* them, so the same listener runs again on an object that has a level but *)
(* neither totalScore nor totalLines.                                      *)
scoreUpdatedTwice(w, level, scoreManager) ==
  [w EXCEPT !.engine.scoreManager = scoreManager,
            !.sm = scoreUpdated(
                     scoreUpdated(@, [totals |-> TRUE,
                                      totalScore |-> scoreManager.score,
                                      level |-> scoreManager.level,
                                      totalLines |-> scoreManager.lines]),
                     [totals |-> FALSE, totalScore |-> 0, level |-> level,
                      totalLines |-> 0])]

(* The listeners setupSystemInteractions registers on the game logic,      *)
(* called by GameLogic.emit. On 'linesClearing':                           *)
(* scoreManager.updateScore(data.action, data.count, {tSpin}). The         *)
(* 'levelUp' and 'achievementUnlocked' listeners change no state.          *)
onLinesClearing(w, action, count) ==
  scoreUpdatedTwice(w, w.engine.scoreManager.level,
                    scoreManagerUpdateScore(
                      w.engine.scoreManager, action, count,
                      action \in {"tSpinSingle", "tSpinDouble", "tSpinTriple"}))

(* On 'pieceHardDropped': updateDropScore('hard', distance).               *)
onPieceHardDropped(w, distance) ==
  [w EXCEPT !.engine.scoreManager = updateDropScore(@, "hard", distance)]

emptyRow == [c \in 1..WIDTH |-> 0]

createEmptyBoard == [r \in 1..HEIGHT |-> emptyRow]

(* updateGhostPiece that keeps a ghost once it has one. *)
updateGhostPieceOnce(w) ==
  IF w.gl.currentPiece = Null \/ ~FEATURE_GHOST_PIECE
    THEN [w EXCEPT !.gl.ghostPiece = Null]
  ELSE IF w.gl.ghostPiece # Null THEN w
  ELSE [w EXCEPT !.gl.ghostPiece = getGhostPiece(w.gl.currentPiece, w.gl.board)]

updateGhostPiece(w) ==
  IF w.gl.currentPiece = Null \/ ~FEATURE_GHOST_PIECE
    THEN [w EXCEPT !.gl.ghostPiece = Null]
    ELSE [w EXCEPT !.gl.ghostPiece = getGhostPiece(w.gl.currentPiece, w.gl.board)]

handleGameOver(w) ==
  stateManagerGameOver(
    emit([w EXCEPT !.gl.isGameOver = TRUE], Event("gameOver", 0, "")))

(* spawnNewPiece that draws the current piece too and drops the one that  *)
(* was announced as next.                                                  *)
spawnNewPieceDrawsBoth(w, fresh) ==
  LET first == getNextPiece(w.pg, fresh)
      second == getNextPiece(first.gen, fresh)
      spawned == [w EXCEPT !.pg = second.gen,
                           !.gl.currentPiece = first.piece,
                           !.gl.nextPiece = second.piece,
                           !.gl.fallTimer = 0,
                           !.gl.lockTimer = 0,
                           !.gl.canHold = TRUE,
                           !.gl.lastRotation = FALSE]
  IN IF collisionIsGameOver(spawned.gl.currentPiece, spawned.gl.board)
       THEN handleGameOver(spawned)
       ELSE emit(updateGhostPiece(spawned), Event("pieceSpawned", 0, ""))

spawnNewPiece(w, fresh) ==
  LET first == IF w.gl.nextPiece # Null
                 THEN [gen |-> w.pg, piece |-> w.gl.nextPiece]
                 ELSE getNextPiece(w.pg, fresh)
      second == getNextPiece(first.gen, fresh)
      spawned == [w EXCEPT !.pg = second.gen,
                           !.gl.currentPiece = first.piece,
                           !.gl.nextPiece = second.piece,
                           !.gl.fallTimer = 0,
                           !.gl.lockTimer = 0,
                           !.gl.canHold = TRUE,
                           !.gl.lastRotation = FALSE]
  IN IF collisionIsGameOver(spawned.gl.currentPiece, spawned.gl.board)
       THEN handleGameOver(spawned)
       ELSE emit(updateGhostPiece(spawned), Event("pieceSpawned", 0, ""))

movedPiece(piece, direction) ==
  CASE direction = "left" -> [piece EXCEPT !.x = piece.x - 1]
    [] direction = "right" -> [piece EXCEPT !.x = piece.x + 1]
    [] direction = "down" -> [piece EXCEPT !.y = piece.y + 1]
    [] OTHER -> piece

Returned(op, ok, n) == [op |-> op, ok |-> ok, n |-> n, threw |-> FALSE]

(* The branch of movePiece taken when canMove allows the move.             *)
movePieceAllowed(w, direction) ==
  LET moved == [w EXCEPT !.gl.currentPiece = movedPiece(w.gl.currentPiece, direction)]
      scored == IF direction = "down"
                  THEN [moved EXCEPT
                          !.gl.gameStats.totalDropDistance =
                             moved.gl.gameStats.totalDropDistance + 1,
                          !.sm = smUpdateScore(moved.sm, "softDrop", 0)]
                  ELSE moved
      flagged == [scored EXCEPT !.gl.lastRotation = FALSE]
  IN [emit(updateGhostPiece(flagged), Event("pieceMoved", 0, ""))
        EXCEPT !.ret = Returned("movePiece", TRUE, 0)]

(* movePiece with the assignment to lastRotation moved in front of the     *)
(* test of canMove.                                                        *)
movePieceFlagFirst(w, direction) ==
  IF w.gl.currentPiece = Null \/ w.gl.isGameOver
    THEN [w EXCEPT !.ret = Returned("movePiece", FALSE, 0)]
  ELSE IF canMove(w.gl.currentPiece, w.gl.board, direction)
    THEN movePieceAllowed(w, direction)
  ELSE [w EXCEPT !.gl.lastRotation = FALSE, !.ret = Returned("movePiece", FALSE, 0)]

movePiece(w, direction) ==
  IF w.gl.currentPiece = Null \/ w.gl.isGameOver
    THEN [w EXCEPT !.ret = Returned("movePiece", FALSE, 0)]
  ELSE IF canMove(w.gl.currentPiece, w.gl.board, direction)
    THEN movePieceAllowed(w, direction)
  ELSE [w EXCEPT !.ret = Returned("movePiece", FALSE, 0)]

rotatePiece(w, clockwise) ==
  IF w.gl.currentPiece = Null \/ w.gl.isGameOver
    THEN [w EXCEPT !.ret = [op |-> "rotatePiece", ok |-> FALSE, n |-> 0, threw |-> FALSE]]
  ELSE LET rotatedPiece == generatorRotatePiece(w.gl.currentPiece, clockwise)
           validPosition == canRotate(w.gl.currentPiece, w.gl.board, rotatedPiece)
       IN IF validPosition # Null
            THEN LET rotated == [w EXCEPT !.gl.currentPiece = validPosition,
                                          !.gl.lastRotation = TRUE]
                 IN [emit(updateGhostPiece(rotated), Event("pieceRotated", 0, ""))
                       EXCEPT !.ret = [op |-> "rotatePiece", ok |-> TRUE, n |-> 0,
                                       threw |-> FALSE]]
            ELSE [w EXCEPT !.ret = [op |-> "rotatePiece", ok |-> FALSE, n |-> 0,
                                    threw |-> FALSE]]

(* The loops of placePieceOnBoard over the shape's cells, from the n-th on. *)
RECURSIVE placeCells(_, _, _)
placeCells(board, piece, n) ==
  LET rows == Len(piece.shape)
      cols == Len(piece.shape[1])
      y == n \div cols
      x == n % cols
      boardX == piece.x + x
      boardY == piece.y + y
  IN IF n >= rows * cols THEN board
     ELSE IF piece.shape[y + 1][x + 1] # 0 /\ isWithinBounds(boardX, boardY)
            THEN placeCells([board EXCEPT ![boardY + 1][boardX + 1] = piece.color],
                            piece, n + 1)
            ELSE placeCells(board, piece, n + 1)

(* The piece's whole bounding box written onto the board. *)
placeBoundingBox(board, piece) ==
  placeCells(board,
             [piece EXCEPT !.shape = [y \in 1..Len(piece.shape) |->
                                        [x \in 1..Len(piece.shape[1]) |-> 1]]],
             0)

placePieceOnBoard(board, piece) == placeCells(board, piece, 0)

lineClearAction(lineCount) ==
  CASE lineCount = 1 -> "single"
    [] lineCount = 2 -> "double"
    [] lineCount = 3 -> "triple"
    [] lineCount = 4 -> "tetris"
    [] OTHER -> "single"

(* tSpinResult && tSpinResult.isTSpin *)
isTSpinResult(tSpinResult) == tSpinResult # Null /\ tSpinResult.isTSpin

tSpinAction(lineCount) ==
  IF lineCount = 1 THEN "tSpinSingle"
  ELSE IF lineCount = 2 THEN "tSpinDouble" ELSE "tSpinTriple"

startLineClearAnimation(w, fullLines, tSpinResult) ==
  LET started == [w EXCEPT !.gl.clearingLines = fullLines, !.gl.clearTimer = 0]
      lineCount == Len(fullLines)
      action == IF isTSpinResult(tSpinResult) THEN tSpinAction(lineCount)
                ELSE lineClearAction(lineCount)
      emitted == onLinesClearing(emit(started, Event("linesClearing", lineCount, action)),
                                 action, lineCount)
  IN [emitted EXCEPT !.sm = smUpdateScore(emitted.sm, action, lineCount)]

(* The 'pieceLocked' event carries the type of the T-Spin found, if any.   *)
lockPiece(w, fresh) ==
  IF w.gl.currentPiece = Null THEN w
  ELSE LET board == placePieceOnBoard(w.gl.board, w.gl.currentPiece)
           tSpinResult ==
             IF FEATURE_T_SPIN_DETECTION
               THEN checkTSpin(w.gl.currentPiece, board, w.gl.lastRotation)
               ELSE Null
           placed == [w EXCEPT
                        !.gl.board = board,
                        !.gl.gameStats.piecesPlaced = w.gl.gameStats.piecesPlaced + 1]
           locked == emit(placed,
                          Event("pieceLocked", 0,
                                IF isTSpinResult(tSpinResult) THEN tSpinResult.type
                                ELSE ""))
           fullLines == getFullLines(locked.gl.board)
       IN IF Len(fullLines) > 0
            THEN startLineClearAnimation(locked, fullLines, tSpinResult)
            ELSE spawnNewPiece(locked, fresh)

(* hardDrop that leaves a piece it could not move to the lock timer.       *)
hardDropUnlessLanded(w, fresh) ==
  IF w.gl.currentPiece = Null \/ w.gl.isGameOver
    THEN [w EXCEPT !.ret = [op |-> "hardDrop", ok |-> FALSE, n |-> 0, threw |-> FALSE]]
  ELSE LET dropDistance == getHardDropDistance(w.gl.currentPiece, w.gl.board)
           dropped ==
             emit([w EXCEPT
                     !.gl.currentPiece.y = w.gl.currentPiece.y + dropDistance,
                     !.gl.gameStats.totalDropDistance =
                        w.gl.gameStats.totalDropDistance + dropDistance,
                     !.sm = smUpdateScore(w.sm, "hardDrop", dropDistance)],
                  Event("pieceHardDropped", dropDistance, ""))
       IN [(IF dropDistance > 0
              THEN lockPiece(onPieceHardDropped(dropped, dropDistance), fresh)
              ELSE w)
             EXCEPT !.ret = [op |-> "hardDrop", ok |-> dropDistance > 0,
                             n |-> dropDistance, threw |-> FALSE]]

hardDrop(w, fresh) ==
  IF w.gl.currentPiece = Null \/ w.gl.isGameOver
    THEN [w EXCEPT !.ret = [op |-> "hardDrop", ok |-> FALSE, n |-> 0, threw |-> FALSE]]
  ELSE LET dropDistance == getHardDropDistance(w.gl.currentPiece, w.gl.board)
           dropped ==
             IF dropDistance > 0
               THEN onPieceHardDropped(
                      emit([w EXCEPT
                              !.gl.currentPiece.y = w.gl.currentPiece.y + dropDistance,
                              !.gl.gameStats.totalDropDistance =
                                 w.gl.gameStats.totalDropDistance + dropDistance,
                              !.sm = smUpdateScore(w.sm, "hardDrop", dropDistance)],
                           Event("pieceHardDropped", dropDistance, "")),
                      dropDistance)
               ELSE w
       IN [lockPiece(dropped, fresh)
             EXCEPT !.ret = [op |-> "hardDrop", ok |-> dropDistance > 0,
                             n |-> dropDistance, threw |-> FALSE]]

(* Array.prototype.sort((a, b) => b - a) on a sequence of row indices.     *)
RECURSIVE sortDescending(_)
sortDescending(lines) ==
  IF Len(lines) = 0 THEN <<>>
  ELSE LET k == CHOOSE i \in 1..Len(lines) :
                  /\ \A j \in 1..Len(lines) : lines[j] <= lines[i]
                  /\ \A j \in 1..(i - 1) : lines[j] < lines[i]
           rest == [j \in 1..(Len(lines) - 1) |-> IF j < k THEN lines[j] ELSE lines[j + 1]]
       IN <<lines[k]>> \o sortDescending(rest)

(* board.splice(lineIndex, 1) *)
splice(board, lineIndex) ==
  IF lineIndex < 0 \/ lineIndex >= Len(board) THEN board
  ELSE [r \in 1..(Len(board) - 1) |->
          IF r <= lineIndex THEN board[r] ELSE board[r + 1]]

(* The empty row added under the board instead of on top of it. *)
unshiftAtEnd(board, row) == board \o <<row>>

(* board.unshift(row) *)
unshift(board, row) == <<row>> \o board

(* The forEach of completeLinesClearing over the sorted rows.              *)
RECURSIVE removeLines(_, _)
removeLines(board, lines) ==
  IF Len(lines) = 0 THEN board
  ELSE removeLines(unshift(splice(board, Head(lines)), emptyRow), Tail(lines))

completeLinesClearing(w, fresh) ==
  LET sorted == sortDescending(w.gl.clearingLines)
      removed == [w EXCEPT
                    !.gl.board = removeLines(w.gl.board, sorted),
                    !.gl.gameStats.linesCleared =
                       w.gl.gameStats.linesCleared + Len(sorted)]
      emitted == emit(removed, Event("linesCleared", Len(sorted), ""))
  IN spawnNewPiece([emitted EXCEPT !.gl.clearingLines = <<>>, !.gl.clearTimer = 0],
                   fresh)

updateLineClearAnimation(w, deltaTime, fresh) ==
  LET timed == [w EXCEPT !.gl.clearTimer = w.gl.clearTimer + deltaTime]
  IN IF timed.gl.clearTimer >= Ms(LINE_CLEAR_DELAY)
       THEN completeLinesClearing(timed, fresh)
       ELSE timed

updatePieceFall(w, deltaTime) ==
  IF w.gl.currentPiece = Null THEN w
  ELSE LET timed == [w EXCEPT !.gl.fallTimer = w.gl.fallTimer + deltaTime]
       IN IF timed.gl.fallTimer >= timed.gl.fallSpeed
            THEN [movePiece(timed, "down") EXCEPT !.gl.fallTimer = 0]
            ELSE timed

(* updateLockTimer that locks only once the timer is past the delay.       *)
updateLockTimerPast(w, deltaTime, fresh) ==
  LET timed == [w EXCEPT !.gl.lockTimer = w.gl.lockTimer + deltaTime]
  IN IF timed.gl.lockTimer > Ms(LOCK_DELAY)
       THEN lockPiece(timed, fresh)
       ELSE timed

(* updateLockTimer that starts the delay again when it has elapsed.        *)
updateLockTimerRestarts(w, deltaTime, fresh) ==
  LET timed == [w EXCEPT !.gl.lockTimer = w.gl.lockTimer + deltaTime]
  IN IF timed.gl.lockTimer >= Ms(LOCK_DELAY)
       THEN [timed EXCEPT !.gl.lockTimer = 0]
       ELSE timed

updateLockTimer(w, deltaTime, fresh) ==
  LET timed == [w EXCEPT !.gl.lockTimer = w.gl.lockTimer + deltaTime]
  IN IF timed.gl.lockTimer >= Ms(LOCK_DELAY)
       THEN lockPiece(timed, fresh)
       ELSE timed

update(w, deltaTime, gameState, fresh) ==
  IF gameState # "playing" \/ w.gl.isGameOver THEN w
  ELSE LET sped == [w EXCEPT !.gl.fallSpeed = Ms(getFallSpeed(w.sm))]
       IN IF Len(sped.gl.clearingLines) > 0
            THEN updateLineClearAnimation(sped, deltaTime, fresh)
            ELSE LET fallen == updatePieceFall(sped, deltaTime)
                     timed ==
                       IF fallen.gl.currentPiece # Null
                          /\ hasLanded(fallen.gl.currentPiece, fallen.gl.board)
                         THEN updateLockTimer(fallen, deltaTime, fresh)
                         ELSE [fallen EXCEPT !.gl.lockTimer = 0]
                 IN updateGhostPiece(timed)

(* gameLogic.holdPiece(): the constructor's field holdPiece = null shadows *)
(* the prototype's method, so the call expression throws a TypeError       *)
(* before any statement of the method runs.                                *)
holdPiece(w) ==
  [w EXCEPT !.ret = [op |-> "holdPiece", ok |-> FALSE, n |-> 0, threw |-> TRUE]]

(* GameEngine.restart(): stop(), clear the input, stateManager.startGame() *)
(* whose 'gameStarted' listener is start(); no system defines onRestart.   *)
restart(w) ==
  [w EXCEPT !.engine = engineStart([enginePause(w.engine) EXCEPT !.inputBuffer = <<>>]),
            !.sm = smStartGame,
            !.ret = [op |-> "restart", ok |-> TRUE, n |-> 0, threw |-> FALSE]]

----------------------------------------------------------------------------
(* GameLogic.reset and the engine's construction *)

pgReset(bag, nextBag) == [bag |-> bag, nextBag |-> nextBag, pieceHistory |-> <<>>]

glConstructed ==
  [ board |-> createEmptyBoard, currentPiece |-> Null, nextPiece |-> Null,
    holdPiece |-> Null, ghostPiece |-> Null,
    fallTimer |-> 0, lockTimer |-> 0, fallSpeed |-> Ms(BASE_FALL_SPEED),
    isGameOver |-> FALSE, canHold |-> TRUE, lastRotation |-> FALSE,
    clearingLines |-> <<>>, clearTimer |-> 0,
    gameStats |-> [linesCleared |-> 0, piecesPlaced |-> 0, totalDropDistance |-> 0] ]

(* reset(): bag and nextBag are the two bags pieceGenerator.reset() draws. *)
reset(w, bag, nextBag) ==
  spawnNewPiece([w EXCEPT !.gl = [glConstructed EXCEPT !.fallSpeed = w.gl.fallSpeed],
                          !.pg = pgReset(bag, nextBag)],
                nextBag)

NoRet == [op |-> "none", ok |-> FALSE, n |-> 0, threw |-> FALSE]

(* The engine after initialize() and startNewGame(): systems reset, the    *)
(* state manager playing, the loop running with a frame requested.         *)
startNewGame(bag, nextBag) ==
  LET constructed == [ gl |-> glConstructed, pg |-> pgReset(bag, nextBag),
                       sm |-> smReset,
                       engine |-> engineConstructed,
                       events |-> <<>>, ret |-> NoRet ]
      resetDone == reset(constructed, bag, nextBag)
  IN [resetDone EXCEPT !.sm = smStartGame,
                       !.engine = engineStart([resetDone.engine EXCEPT
                                                 !.scoreManager = scoreManagerReset]),
                       !.events = <<>>]

----------------------------------------------------------------------------
(* GameEngine: the keyboard's input buffer and the fixed-step update *)

KEYS ==
  [ LEFT |-> "ArrowLeft", RIGHT |-> "ArrowRight", DOWN |-> "ArrowDown",
    UP |-> "ArrowUp", SPACE |-> " ", ENTER |-> "Enter", ESCAPE |-> "Escape",
    P |-> "KeyP", M |-> "KeyM" ]

(* fixedTimeStep = 1000 / 60 ms *)
fixedTimeStep == Ms(1000) \div 60

(* handleKeyDown: the entry pushed for the key. In place of the entry's    *)
(* timestamp, `during` is the game state the key arrived in.               *)
handleKeyDown(e, key, during) ==
  [e EXCEPT !.inputBuffer =
     Append(e.inputBuffer, [type |-> "keydown", key |-> key, during |-> during])]

handleKeyUp(e, key, during) ==
  [e EXCEPT !.inputBuffer =
     Append(e.inputBuffer, [type |-> "keyup", key |-> key, during |-> during])]

(* The call handleGameInput makes for a key. *)
inputCall(key) ==
  CASE key \in {KEYS.LEFT, KEYS.RIGHT, KEYS.DOWN} -> "movePiece"
    [] key \in {KEYS.UP, "KeyZ"} -> "rotatePiece"
    [] key = KEYS.SPACE -> "hardDrop"
    [] key = "KeyC" -> "holdPiece"
    [] key \in {KEYS.P, KEYS.ESCAPE} -> "togglePause"
    [] key = KEYS.M -> "toggleMute"
    [] OTHER -> "none"

(* How many calls of gameLoop fit on the stack, one inside the other.      *)
MaxNesting == 2

(* Where the call that no longer fits on the stack is made: the listener's *)
(* call of resume(), resume()'s call of gameLoop(), or a call made by      *)
(* processInput() after the systems of that gameLoop() were updated.       *)
OverflowPoints == {"resume", "gameLoop", "processInput"}

(* What a frame has returned before its first update: ret.calls lists the  *)
(* calls handleGameInput makes in the frame, each with the game state it   *)
(* was made in, whether the engine was running then, and the state its key *)
(* arrived in.                                                             *)
FrameRet ==
  [op |-> "gameLoop", ok |-> FALSE, n |-> 0, threw |-> FALSE, calls |-> <<>>]

RECURSIVE gameLoop(_, _)
RECURSIVE gameLoopUpdates(_, _)
RECURSIVE engineUpdate(_, _, _)
RECURSIVE processInput(_, _)
RECURSIVE processInputFrom(_, _, _, _)
RECURSIVE handleGameInput(_, _, _)
RECURSIVE stateManagerTogglePause(_, _)
RECURSIVE engineResume(_, _)

(* A resume() that leaves lastTime where the last frame put it. *)
engineResumeFromLastTime(w, fresh) ==
  LET resumed == [w EXCEPT !.engine.isRunning = TRUE]
      updated == [update(resumed, fixedTimeStep, resumed.sm.gameState, fresh)
                    EXCEPT !.engine.frameUpdates = @ + 1]
  IN IF w.engine.isRunning THEN w
     ELSE IF w.engine.depth < MaxNesting THEN gameLoop(resumed, fresh)
     ELSE IF w.engine.overflowAt = "resume" THEN [w EXCEPT !.ret.threw = TRUE]
     ELSE IF /\ w.engine.overflowAt = "processInput"
             /\ atLeast(w.engine.accumulator, fixedTimeStepDouble)
             /\ w.sm.gameState = "playing"
       THEN [updated EXCEPT !.ret.threw = TRUE]
     ELSE [resumed EXCEPT !.ret.threw = TRUE]

(* resume(): lastTime is now, and gameLoop() is called at once, from       *)
(* inside the frame when a key of the buffer resumes the game. A call that *)
(* overflows the stack throws a RangeError up to the nearest catch.        *)
engineResume(w, fresh) ==
  LET resumed == [w EXCEPT !.engine.isRunning = TRUE,
                           !.engine.sinceLast = Double(0, 0)]
      updated == [update(resumed, fixedTimeStep, resumed.sm.gameState, fresh)
                    EXCEPT !.engine.frameUpdates = @ + 1]
  IN IF w.engine.isRunning THEN w
     ELSE IF w.engine.depth < MaxNesting THEN gameLoop(resumed, fresh)
     ELSE IF w.engine.overflowAt = "resume" THEN [w EXCEPT !.ret.threw = TRUE]
     ELSE IF /\ w.engine.overflowAt = "processInput"
             /\ atLeast(w.engine.accumulator, fixedTimeStepDouble)
             /\ w.sm.gameState = "playing"
       THEN [updated EXCEPT !.ret.threw = TRUE]
     ELSE [resumed EXCEPT !.ret.threw = TRUE]

(* stateManager.togglePause(), with the engine's 'pauseToggled' listener   *)
(* run by its emit, which catches what the listener throws.                *)
stateManagerTogglePause(w, fresh) ==
  LET toggled == [w EXCEPT !.sm = togglePause(w.sm)]
  IN IF toggled.sm.isPaused
       THEN [toggled EXCEPT !.engine = enginePause(toggled.engine)]
       ELSE [engineResume(toggled, fresh) EXCEPT !.ret.threw = FALSE]

(* The switch of handleGameInput. What a call of GameLogic returns is      *)
(* dropped; holdPiece() throws.                                            *)
handleGameInput(w, key, fresh) ==
  LET dropped(called) == [called EXCEPT !.ret = w.ret]
      thrown(called) == [called EXCEPT !.ret = [w.ret EXCEPT !.ok = FALSE,
                                                             !.threw = TRUE]]
  IN CASE key = KEYS.LEFT -> dropped(movePiece(w, "left"))
       [] key = KEYS.RIGHT -> dropped(movePiece(w, "right"))
       [] key = KEYS.DOWN -> dropped(movePiece(w, "down"))
       [] key = KEYS.UP -> dropped(rotatePiece(w, TRUE))
       [] key = KEYS.SPACE -> dropped(hardDrop(w, fresh))
       [] key = "KeyZ" -> dropped(rotatePiece(w, FALSE))
       [] key = "KeyC" -> thrown(holdPiece(w))
       [] key \in {KEYS.P, KEYS.ESCAPE} -> stateManagerTogglePause(w, fresh)
       [] OTHER -> w

(* The forEach of processInput over the array the buffer was when it       *)
(* began, from the k-th entry on. A call that throws leaves processInput,  *)
(* update and gameLoop before the buffer is cleared or a frame requested.  *)
processInputFrom(w, buffer, k, fresh) ==
  LET called(input) ==
        [w EXCEPT !.ret.calls = Append(@, [op |-> inputCall(input.key),
                                           gameState |-> w.sm.gameState,
                                           running |-> w.engine.isRunning,
                                           during |-> input.during]),
                  !.ret.n = @ + 1]
  IN IF w.ret.threw THEN w
     ELSE IF k > Len(buffer)
       THEN [w EXCEPT !.engine.inputBuffer = <<>>, !.ret.ok = TRUE]
     ELSE IF buffer[k].type # "keydown" \/ inputCall(buffer[k].key) = "none"
       THEN processInputFrom(w, buffer, k + 1, fresh)
     ELSE processInputFrom(handleGameInput(called(buffer[k]), buffer[k].key, fresh),
                           buffer, k + 1, fresh)

processInput(w, fresh) ==
  IF w.sm.gameState # "playing"
    THEN [w EXCEPT !.engine.inputBuffer = <<>>, !.ret.ok = FALSE]
    ELSE processInputFrom(w, w.engine.inputBuffer, 1, fresh)

(* GameEngine.update(deltaTime): nothing unless the game is playing, then  *)
(* the systems' update and processInput.                                   *)
engineUpdate(w, deltaTime, fresh) ==
  LET counted == [w EXCEPT !.engine.frameUpdates = @ + 1,
                           !.engine.updates = IF w.engine.plain THEN @ + 1 ELSE 0,
                           !.ret.op = "update"]
  IN IF w.sm.gameState # "playing" THEN w
     ELSE processInput(update(counted, deltaTime, counted.sm.gameState, fresh),
                       fresh)

(* The while loop of gameLoop. *)
gameLoopUpdates(w, fresh) ==
  LET stepped(updated) ==
        IF updated.ret.threw THEN updated
        ELSE [updated EXCEPT !.engine.accumulator = minus(@, fixedTimeStepDouble)]
  IN IF w.ret.threw \/ ~atLeast(w.engine.accumulator, fixedTimeStepDouble) THEN w
     ELSE gameLoopUpdates(stepped(engineUpdate(w, fixedTimeStep, fresh)), fresh)

(* gameLoop(): the time since lastTime, 100 ms at most, goes into the      *)
(* accumulator, the updates run, and the next frame is requested.          *)
gameLoop(w, fresh) ==
  LET elapsed == w.engine.sinceLast
      deltaTime == IF atLeast(elapsed, Double(1200, 0))
                     THEN Double(1200, 0) ELSE elapsed
      plain == /\ w.engine.plain
               /\ deltaTime = elapsed
               /\ w.engine.depth = 0
      entered ==
        [w EXCEPT !.engine.sinceLast = Double(0, 0),
                  !.engine.accumulator = plus(@, deltaTime),
                  !.engine.depth = @ + 1,
                  !.engine.plain = plain,
                  !.engine.total =
                     IF plain THEN Double(@.hi + deltaTime.hi, @.lo + deltaTime.lo)
                     ELSE Double(0, 0),
                  !.engine.updates = IF plain THEN @ ELSE 0]
      left(looped) ==
        [looped EXCEPT !.engine = IF looped.ret.threw
                                    THEN [@ EXCEPT !.depth = @ - 1]
                                    ELSE [requestFrame(@) EXCEPT !.depth = @ - 1]]
  IN IF ~w.engine.isRunning THEN w
     ELSE left(gameLoopUpdates(entered, fresh))

(* The callbacks due in a frame, fired in the order they were requested   *)
(* in; what one of them throws does not reach the next.                    *)
RECURSIVE callbacks(_, _)
callbacks(w, fresh) ==
  LET fired == [w EXCEPT !.engine.due = @ - 1,
                         !.engine.frameId =
                            IF @ = "due" /\ w.engine.due = 1 THEN "none" ELSE @,
                         !.ret.threw = FALSE]
  IN IF w.engine.due = 0 THEN w
     ELSE callbacks(gameLoop(fired, fresh), fresh)

(* A frame of the display, elapsed after the call of gameLoop or of        *)
(* resume() before it: every callback requested before the frame fires.    *)
frame(w, elapsed, fresh, overflowAt) ==
  LET began == [w EXCEPT !.engine.due = w.engine.pending,
                         !.engine.pending = 0,
                         !.engine.frameId = IF @ = "next" THEN "due" ELSE @,
                         !.engine.sinceLast = Double(@.hi + elapsed.hi,
                                                     @.lo + elapsed.lo),
                         !.engine.frameUpdates = 0,
                         !.engine.overflowAt = overflowAt,
                         !.ret = FrameRet]
      ended(run) == [run EXCEPT !.engine.overflowAt = "resume",
                                !.engine.frameRequested = run.engine.pending > 0]
  IN ended(callbacks(began, fresh))

(* handleVisibilityChange() with document.hidden as read by it, first     *)
(* without the tests of isRunning and of the game state.                   *)
handleVisibilityChangeToggles(w, hidden, fresh) ==
  IF hidden THEN stateManagerTogglePause(w, fresh) ELSE w

handleVisibilityChange(w, hidden, fresh) ==
  IF hidden /\ w.engine.isRunning /\ w.sm.gameState = "playing"
    THEN stateManagerTogglePause(w, fresh)
    ELSE w

handleFocusChange(w, hasFocus, fresh) ==
  IF ~hasFocus /\ w.engine.isRunning /\ w.sm.gameState = "playing"
    THEN stateManagerTogglePause(w, fresh)
    ELSE w

(* The events of the document and the window: the listener the engine      *)
(* registers and the listener main.js registers both call the handler.     *)
visibilitychange(w, hidden, fresh) ==
  handleVisibilityChange(handleVisibilityChange(w, hidden, fresh), hidden, fresh)

blurOrFocus(w, hasFocus, fresh) ==
  handleFocusChange(handleFocusChange(w, hasFocus, fresh), hasFocus, fresh)

(* GameEngine.startNewGame(): every system reset, then                     *)
(* stateManager.startGame(), whose 'gameStarted' listener is start().      *)
engineStartNewGame(w, bag, nextBag) ==
  LET resetDone == reset(w, bag, nextBag)
  IN [resetDone EXCEPT !.sm = smStartGame,
                       !.engine = engineStart([resetDone.engine EXCEPT
                                                 !.scoreManager = scoreManagerReset]),
                       !.ret = Returned("startNewGame", TRUE, 0)]

(* The engine after initialize(): the systems constructed, the state       *)
(* manager in the menu, the loop not running.                              *)
engineInitialized(bag, nextBag) ==
  [startNewGame(bag, nextBag) EXCEPT
     !.sm = smReset,
     !.engine = engineConstructed]

----------------------------------------------------------------------------
(* Starting positions: a new game whose board has then been filled in      *)
(* directly, the way the README's tests assign gameLogic.board[19][col].   *)
(* The side columns are stacked to the top and leave a shaft over the      *)
(* spawn columns; under the shaft, four rows are full except for a well    *)
(* one column wide and, in some of them, a gap at column 0; the rows below *)
(* all have a gap at column 0.                                             *)

StackTop == HEIGHT - 17

WellColumn == WIDTH \div 2

ShaftColumns == 3..6

WellRows == StackTop..(StackTop + 3)

stackBoard(holes) ==
  [r \in 1..HEIGHT |->
     [c \in 1..WIDTH |->
        IF \/ (r - 1 < StackTop /\ (c - 1) \in ShaftColumns)
           \/ ((r - 1) \in WellRows /\ c - 1 = WellColumn)
           \/ ((r - 1) \in holes /\ c - 1 = 0)
           \/ (r - 1 > StackTop + 3 /\ c - 1 = 0)
          THEN 0 ELSE PieceColor("I")]]

(* Which of the well's rows have the gap at column 0. *)
HolePatterns ==
  { {}, {StackTop, StackTop + 2} }

(* The shuffles that swap one position with the front, so that the first   *)
(* piece of the game is of any type.                                       *)
FirstPieceBags ==
  { fisherYates(PIECE_TYPES, Len(PIECE_TYPES) - 1,
                [i \in 1..(Len(PIECE_TYPES) - 1) |-> IF i = k THEN 0 ELSE i]) :
      k \in 0..(Len(PIECE_TYPES) - 1) }

StartWorld(bag, holes) ==
  LET started == startNewGame(bag, PIECE_TYPES)
  IN updateGhostPiece([started EXCEPT !.gl.board = stackBoard(holes)])

(* How many pieces a behaviour locks before the play stops.                *)
MaxPieces == 1

(* How far the pieces of a behaviour drop in total: a piece that a wall    *)
(* kick lifts can be dropped again without end.                            *)
MaxDrop == 2

DropBudget == gl.gameStats.totalDropDistance < MaxDrop

(* Play goes on while the engine's loop has a frame requested, and stops   *)
(* when the budget of pieces or of drops is used up.                       *)
Budget ==
  /\ gl.gameStats.piecesPlaced < MaxPieces
  /\ DropBudget
  /\ engine.frameRequested

UpdateDts == {Ms(250)}

Directions == {"left", "right", "down"}

World == [gl |-> gl, pg |-> pg, sm |-> sm, engine |-> engine,
          events |-> <<>>, ret |-> ret]

Commit(w) ==
  /\ gl' = w.gl
  /\ pg' = w.pg
  /\ sm' = w.sm
  /\ engine' = w.engine
  /\ events' = w.events
  /\ ret' = w.ret

(* The bags Math.random can produce for the refill of the next draw; no    *)
(* shuffle runs while the bag still holds a piece.                         *)
FreshBags == IF Len(pg.bag) = 0 THEN generateRandomBag ELSE {pg.nextBag}

Init ==
  \E bag \in FirstPieceBags, holes \in HolePatterns :
    /\ (holes = {} \/ Head(bag) = "I")
    /\ LET w == StartWorld(bag, holes)
       IN /\ gl = w.gl
          /\ pg = w.pg
          /\ sm = w.sm
          /\ engine = w.engine
          /\ events = w.events
          /\ ret = w.ret

Update ==
  /\ \/ Budget
     \/ (Len(gl.clearingLines) > 0 /\ engine.frameRequested)
     \/ gl.isGameOver
  /\ \E deltaTime \in UpdateDts, fresh \in FreshBags :
       Commit([update(World, deltaTime, sm.gameState, fresh)
                 EXCEPT !.ret = [op |-> "update", ok |-> FALSE, n |-> 0,
                                 threw |-> FALSE]])

(* During the line-clear animation: one input after each update.           *)
ClearingInput ==
  /\ Len(gl.clearingLines) > 0
  /\ gl.gameStats.piecesPlaced <= MaxPieces
  /\ DropBudget
  /\ engine.frameRequested
  /\ ret.op = "update"

PlayerBudget == Budget \/ gl.isGameOver \/ ClearingInput

MovePiece ==
  /\ PlayerBudget
  /\ \E direction \in Directions : Commit(movePiece(World, direction))

(* The player rotates a piece whose bounding box starts on the board: a    *)
(* wall kick lifts the piece, rows above the board never collide, and the  *)
(* play above the top row is left out.                                     *)
OnBoard == gl.currentPiece.y >= 0

RotatePiece ==
  /\ PlayerBudget
  /\ OnBoard
  /\ \E clockwise \in BOOLEAN : Commit(rotatePiece(World, clockwise))

HardDrop ==
  /\ PlayerBudget
  /\ \E fresh \in FreshBags : Commit(hardDrop(World, fresh))

(* The key 'KeyC' in the input buffer of a frame of the loop: after the    *)
(* systems' update, processInput's handleGameInput calls                   *)
(* gameLogic.holdPiece(), and the throw leaves processInput, update and    *)
(* gameLoop before requestAnimationFrame is reached.                       *)
HoldPiece ==
  /\ sm.gameState = "playing"
  /\ ret.op = "update"
  /\ engine.isRunning
  /\ engine.frameRequested
  /\ Commit([holdPiece(World) EXCEPT !.engine.frameRequested = FALSE,
                                     !.engine.pending = 0,
                                     !.engine.frameId = "none"])

(* The restart button of the game-over screen. *)
Restart ==
  /\ sm.gameState = "gameOver"
  /\ Commit(restart(World))

Next ==
  \/ Update
  \/ MovePiece
  \/ RotatePiece
  \/ HardDrop
  \/ HoldPiece
  \/ Restart

Spec == Init /\ [][Next]_vars

----------------------------------------------------------------------------
(* The game left alone: the state manager playing, no input, and the loop  *)
(* calling update() with its fixed step or with a longer one; the ticks    *)
(* keep arriving. ret keeps the step of the last tick.                     *)

TickDts == {fixedTimeStep, Ms(250)}

Tick ==
  \E deltaTime \in TickDts, fresh \in FreshBags :
    Commit([update(World, deltaTime, sm.gameState, fresh)
              EXCEPT !.ret = Returned("update", TRUE, deltaTime)])

(* A tick changes the state exactly while the game is being played: the    *)
(* timers grow, the piece moves or the piece locks.                        *)
TickActive == sm.gameState = "playing" /\ ~gl.isGameOver

(* Weak fairness of Tick, with the enabledness of a state-changing tick    *)
(* written as TickActive: requestAnimationFrame keeps calling gameLoop.    *)
TickSpec ==
  /\ Init
  /\ [][Tick]_vars
  /\ ([]<>~TickActive \/ []<><<Tick>>_vars)

----------------------------------------------------------------------------
(* The generator alone: a PieceGenerator after construction, and           *)
(* getNextPiece() called on it over and over.                              *)

MaxDraws == 2 * Len(PIECE_TYPES) + 1

Idle ==
  /\ gl = glConstructed
  /\ sm = smReset
  /\ engine = engineConstructed
  /\ events = <<>>

GenInit ==
  /\ \E bag \in generateRandomBag, nextBag \in generateRandomBag :
       pg = pgReset(bag, nextBag)
  /\ ret = NoRet
  /\ Idle

GetNextPiece ==
  /\ Len(pg.pieceHistory) < MaxDraws
  /\ \E fresh \in FreshBags :
       LET drawn == getNextPiece(pg, fresh)
       IN /\ pg' = drawn.gen
          /\ ret' = Returned("getNextPiece", TRUE, drawn.piece.color)
  /\ UNCHANGED <<gl, sm, engine, events>>

PreviewCounts == {0, 3, Len(PIECE_TYPES) + 1}

(* The bags previewNext's own shuffles can return, first and second; a    *)
(* shuffle whose bag the loop does not read from is given as the unshuffled *)
(* bag.                                                                    *)
PreviewShuffles(count) ==
  { <<first, PIECE_TYPES>> :
      first \in IF count > Len(pg.bag) + Len(pg.nextBag)
                  THEN generateRandomBag ELSE {PIECE_TYPES} }

(* previewNext(count), once in a behaviour; events keeps what it returned, *)
(* each entry with the number of the draw it announces.                    *)
PreviewNext ==
  /\ events = <<>>
  /\ \E count \in PreviewCounts :
     \E shuffles \in PreviewShuffles(count) :
       LET preview == previewNext(pg, count, shuffles)
       IN /\ events' = [i \in 1..Len(preview) |->
                          Event("preview", Len(pg.pieceHistory) + i, preview[i].type)]
          /\ ret' = Returned("previewNext", TRUE, count)
  /\ UNCHANGED <<gl, pg, sm, engine>>

GenNext ==
  \/ GetNextPiece
  \/ PreviewNext

GenSpec == GenInit /\ [][GenNext]_vars

----------------------------------------------------------------------------
(* The game with the rendering collaborator reading it: getGameData() asks *)
(* gameLogic.getNextPieces(3) for the previews; events keeps what it       *)
(* returned, entry by entry.                                               *)

getNextPieces(w, count, shuffles) == previewNext(w.pg, count, shuffles)

GetGameData ==
  /\ \E shuffles \in PreviewShuffles(3) :
       LET nextPieces == getNextPieces(World, 3, shuffles)
       IN /\ events' = [i \in 1..Len(nextPieces) |->
                          Event("nextPieces", i, nextPieces[i].type)]
          /\ ret' = Returned("getNextPieces", TRUE, Len(nextPieces))
  /\ UNCHANGED <<gl, pg, sm, engine>>

RenderNext ==
  \/ Update
  \/ MovePiece
  \/ HardDrop
  \/ GetGameData

RenderSpec == Init /\ [][RenderNext]_vars

----------------------------------------------------------------------------
(* The collision detector alone: a piece of any type and rotation at any   *)
(* position, on or off the board, over a board with an overhang and a      *)
(* closed cavity under it, over a staircase, and over the empty board;     *)
(* the detector's functions are called on them.                            *)

cavityBoard ==
  [r \in 1..HEIGHT |->
     [c \in 1..WIDTH |->
        IF \/ (r - 1 = HEIGHT - 5 /\ (c - 1) \in 2..7)
           \/ (r - 1 > HEIGHT - 5 /\ (c - 1) \in {2, 7})
          THEN PieceColor("T") ELSE 0]]

stairBoard ==
  [r \in 1..HEIGHT |->
     [c \in 1..WIDTH |-> IF r - 1 >= HEIGHT - 1 - ((c - 1) % 4) THEN PieceColor("L") ELSE 0]]

(* A stack that has grown to the second row, with a slot one column wide   *)
(* in that row under the spawn columns.                                    *)
towerBoard ==
  [r \in 1..HEIGHT |->
     [c \in 1..WIDTH |->
        IF r - 1 >= 1 /\ ~(r - 1 = 1 /\ c - 1 = WellColumn) /\ c - 1 # 0
          THEN PieceColor("J") ELSE 0]]

ProbeBoards == {createEmptyBoard, cavityBoard, stairBoard, towerBoard}

ProbeXs == (-2)..(WIDTH - 1)

ProbeYs == ((-2)..0) \cup ((HEIGHT - 8)..(HEIGHT - 1))

RECURSIVE turned(_, _)
turned(piece, times) ==
  IF times = 0 THEN piece ELSE turned(generatorRotatePiece(piece, TRUE), times - 1)

DetectorInit ==
  /\ \E board \in ProbeBoards, t \in DOMAIN PIECE_TYPES, times \in 0..3,
        x \in ProbeXs, y \in ProbeYs :
       /\ board = towerBoard => y <= 0
       /\ gl = [glConstructed EXCEPT
               !.board = board,
               !.currentPiece = [turned(createPiece(PIECE_TYPES[t]), times)
                                   EXCEPT !.x = x, !.y = y]]
  /\ pg = pgReset(PIECE_TYPES, PIECE_TYPES)
  /\ sm = smReset
  /\ engine = engineConstructed
  /\ events = <<>>
  /\ ret = NoRet

(* The ghost is asked for after the other calls. *)
GhostUnset == gl.ghostPiece = Null

ProbeIsValidPosition ==
  /\ GhostUnset
  /\ ret' = Returned("isValidPosition",
                     isValidPosition(gl.currentPiece, gl.board, 0, 0), 0)
  /\ UNCHANGED <<gl, pg, sm, engine, events>>

ProbeHardDropDistance ==
  /\ GhostUnset
  /\ ret' = Returned("getHardDropDistance",
                     isValidPosition(gl.currentPiece, gl.board, 0, 0),
                     getHardDropDistance(gl.currentPiece, gl.board))
  /\ UNCHANGED <<gl, pg, sm, engine, events>>

(* checkTSpin(piece, board, wasRotation) the way lockPiece calls it: the    *)
(* result is what the call returned.                                       *)
ProbeCheckTSpin ==
  /\ GhostUnset
  /\ \E wasRotation \in BOOLEAN :
       LET result == checkTSpin(gl.currentPiece, gl.board, wasRotation)
       IN ret' = [ op |-> "checkTSpin", ok |-> result.isTSpin, n |-> 0,
                   threw |-> FALSE, wasRotation |-> wasRotation, result |-> result ]
  /\ UNCHANGED <<gl, pg, sm, engine, events>>

(* canRotate(piece, board, rotatedPiece, pieceGenerator) the way           *)
(* rotatePiece calls it, for a turn in either direction.                   *)
ProbeCanRotate ==
  /\ GhostUnset
  /\ \E clockwise \in BOOLEAN :
       LET result == canRotate(gl.currentPiece, gl.board,
                               generatorRotatePiece(gl.currentPiece, clockwise))
       IN ret' = [ op |-> "canRotate", ok |-> result # Null, n |-> 0,
                   threw |-> FALSE, clockwise |-> clockwise, result |-> result ]
  /\ UNCHANGED <<gl, pg, sm, engine, events>>

(* getGhostPiece(currentPiece, board) the way updateGhostPiece calls it,   *)
(* once and then a second time; ret.n counts the calls.                    *)
ProbeGhostPiece ==
  /\ ret.op \in {"none", "getGhostPiece"}
  /\ ret.op = "getGhostPiece" => ret.n < 2
  /\ gl' = [gl EXCEPT !.ghostPiece = getGhostPiece(gl.currentPiece, gl.board)]
  /\ ret' = Returned("getGhostPiece", TRUE,
                     IF ret.op = "getGhostPiece" THEN ret.n + 1 ELSE 1)
  /\ UNCHANGED <<pg, sm, engine, events>>

DetectorNext ==
  \/ ProbeIsValidPosition
  \/ ProbeHardDropDistance
  \/ ProbeCheckTSpin
  \/ ProbeCanRotate
  \/ ProbeGhostPiece

DetectorSpec == DetectorInit /\ [][DetectorNext]_vars

----------------------------------------------------------------------------
(* The StateManager alone, the way its unit tests drive it: constructed,   *)
(* then startGame, togglePause, gameOver, setState and updateScore called  *)
(* on it in any order; events are the ones the last call emitted.          *)

MaxLines == 20

MaxScore == 3000

LineClearActions == {"single", "double", "triple", "tetris"}

LineCounts == (0..4) \cup {LINES_PER_LEVEL}

ManagerInit ==
  /\ sm = smReset
  /\ gl = glConstructed
  /\ pg = pgReset(PIECE_TYPES, PIECE_TYPES)
  /\ engine = engineConstructed
  /\ events = <<>>
  /\ ret = NoRet

ManagerStartGame ==
  /\ sm' = smStartGame
  /\ events' = <<Event("gameStarted", 0, "")>>
  /\ ret' = Returned("startGame", TRUE, 0)
  /\ UNCHANGED <<gl, pg, engine>>

(* ret.n counts the toggles in a row. *)
ManagerTogglePause ==
  /\ ret.op = "togglePause" => ret.n < 2
  /\ sm' = togglePause(sm)
  /\ events' = <<Event("pauseToggled", 0, "")>>
  /\ ret' = Returned("togglePause", sm'.isPaused,
                     IF ret.op = "togglePause" THEN ret.n + 1 ELSE 1)
  /\ UNCHANGED <<gl, pg, engine>>

ManagerGameOver ==
  /\ sm' = smGameOver(sm)
  /\ events' = <<Event("gameOver", 0, "")>>
  /\ ret' = Returned("gameOver", TRUE, 0)
  /\ UNCHANGED <<gl, pg, engine>>

ManagerSetLoading ==
  /\ sm' = setState(sm, [gameState |-> "loading"])
  /\ events' = <<Event("stateChanged", 0, "")>>
  /\ ret' = Returned("setState", TRUE, 0)
  /\ UNCHANGED <<gl, pg, engine>>

ManagerUpdateScore ==
  /\ sm.gameState \in {"menu", "playing"}
  /\ sm.lines < MaxLines
  /\ sm.score < MaxScore
  /\ \E action \in LineClearActions, linesCleared \in LineCounts :
       /\ sm' = smUpdateScore(sm, action, linesCleared)
       /\ events' = smUpdateScoreEmits(sm, action, linesCleared)
       /\ ret' = [ op |-> "updateScore", ok |-> TRUE, n |-> linesCleared,
                   threw |-> FALSE, action |-> action ]
  /\ UNCHANGED <<gl, pg, engine>>

ManagerNext ==
  \/ ManagerStartGame
  \/ ManagerTogglePause
  \/ ManagerGameOver
  \/ ManagerSetLoading
  \/ ManagerUpdateScore

ManagerSpec == ManagerInit /\ [][ManagerNext]_vars

----------------------------------------------------------------------------
(* The engine and its keyboard: keys arrive in any game state, the loop    *)
(* runs update() while the engine is running, the player starts a game     *)
(* from the menu, pauses and resumes it with the pause button, and         *)
(* restarts it from the game-over screen.                                  *)

(* How many entries the input buffer holds before the next key is left out *)
MaxBuffer == 2

(* How many updates of the loop pass between two spawns.                   *)
MaxUpdates == 2

(* The times between two frames: 17 ms, and a stall of a second while no   *)
(* key is waiting.                                                         *)
FrameTimes ==
  {Double(204, 0)} \cup (IF engine.inputBuffer = <<>> THEN {Double(12000, 0)} ELSE {})

(* A stack overflow needs two keys of the buffer that toggle the pause.    *)
Overflows ==
  IF Cardinality({ k \in DOMAIN engine.inputBuffer :
                     /\ engine.inputBuffer[k].type = "keydown"
                     /\ inputCall(engine.inputBuffer[k].key) = "togglePause" }) > 1
    THEN OverflowPoints ELSE {"resume"}

InputKeys == {KEYS.LEFT, "KeyZ", KEYS.SPACE, KEYS.P}

InputBags == { bag \in FirstPieceBags : Head(bag) \in {"I", "T"} }

(* A stack grown to the top row: under the spawn columns it leaves a       *)
(* pocket in which a T piece fits flat, and turned; the rows below all     *)
(* have a gap at column 0.                                                 *)
pocketBoard ==
  [r \in 1..HEIGHT |->
     [c \in 1..WIDTH |->
        IF \/ (r - 1 = 0 /\ c - 1 = 4)
           \/ (r - 1 = 1 /\ (c - 1) \in 3..5)
           \/ (r - 1 = 2 /\ c - 1 = 5)
           \/ (r - 1 = 3 /\ (c - 1) \in 4..5)
           \/ (r - 1 = 4 /\ c - 1 = 5)
           \/ (r - 1 > 4 /\ c - 1 = 0)
          THEN 0 ELSE PieceColor("I")]]

PocketWorld(bag) ==
  LET started == startNewGame(bag, PIECE_TYPES)
  IN updateGhostPiece([started EXCEPT !.gl.board = pocketBoard])

InputInit ==
  \E bag \in InputBags :
    \E w \in {engineInitialized(bag, PIECE_TYPES), StartWorld(bag, {})}
                \cup (IF Head(bag) = "T" THEN {PocketWorld(bag)} ELSE {}) :
      /\ gl = w.gl
      /\ pg = w.pg
      /\ sm = w.sm
      /\ engine = w.engine
      /\ events = w.events
      /\ ret = w.ret

(* A keydown event of the document, while a piece is in play or its rows   *)
(* are being cleared.                                                      *)
KeyDown ==
  /\ Len(engine.inputBuffer) < MaxBuffer
  /\ \/ gl.gameStats.piecesPlaced < MaxPieces
     \/ (Len(gl.clearingLines) > 0 /\ gl.gameStats.piecesPlaced <= MaxPieces)
  /\ \E key \in InputKeys :
       Commit([World EXCEPT
                 !.engine = handleKeyDown(engine, key, sm.gameState),
                 !.ret = Returned("handleKeyDown", TRUE, Len(engine.inputBuffer) + 1)])

(* A keyup event of the document. *)
KeyUp ==
  /\ Len(engine.inputBuffer) < MaxBuffer
  /\ gl.gameStats.piecesPlaced < MaxPieces
  /\ Commit([World EXCEPT
               !.engine = handleKeyUp(engine, KEYS.LEFT, sm.gameState),
               !.ret = Returned("handleKeyUp", TRUE, Len(engine.inputBuffer) + 1)])

(* A frame of the loop. The frames of a loop that runs while no game is    *)
(* being played, or a game that is over, change the accumulator only, and  *)
(* are left out.                                                           *)
Frame ==
  /\ engine.frameRequested
  /\ engine.isRunning => (sm.gameState = "playing" /\ ~gl.isGameOver)
  /\ gl.fallTimer + gl.clearTimer < MaxUpdates * fixedTimeStep
  /\ \E elapsed \in FrameTimes, fresh \in FreshBags, overflowAt \in Overflows :
       Commit(frame(World, elapsed, fresh, overflowAt))

(* The pause button of the game view, while a game is on. *)
PauseButton ==
  /\ sm.gameState \in {"playing", "paused"}
  /\ \E fresh \in FreshBags :
       Commit([stateManagerTogglePause(
                 [World EXCEPT !.ret = FrameRet, !.engine.frameUpdates = 0], fresh)
               EXCEPT !.ret = Returned("togglePause", TRUE, 0)])

(* The start button of the menu. *)
StartNewGame ==
  /\ sm.gameState = "menu"
  /\ \E bag \in InputBags : Commit(engineStartNewGame(World, bag, PIECE_TYPES))

(* The restart button of the game-over screen. *)
InputRestart ==
  /\ sm.gameState = "gameOver"
  /\ Commit(restart(World))

InputNext ==
  \/ KeyDown
  \/ KeyUp
  \/ Frame
  \/ PauseButton
  \/ StartNewGame
  \/ InputRestart

InputSpec == InputInit /\ [][InputNext]_vars

----------------------------------------------------------------------------
(* The engine and its window: the tab is hidden and shown, the window      *)
(* loses and gains the focus, while the player drops pieces and pauses     *)
(* with the keyboard and the button, starts and restarts.                  *)

WindowKeys == {KEYS.SPACE, KEYS.P}

WindowKeyDown ==
  /\ Len(engine.inputBuffer) < MaxBuffer
  /\ \/ gl.gameStats.piecesPlaced < MaxPieces
     \/ (Len(gl.clearingLines) > 0 /\ gl.gameStats.piecesPlaced <= MaxPieces)
  /\ \E key \in WindowKeys :
       Commit([World EXCEPT
                 !.engine = handleKeyDown(engine, key, sm.gameState),
                 !.ret = Returned("handleKeyDown", TRUE, Len(engine.inputBuffer) + 1)])

(* A 'visibilitychange' event; ret.ok is document.hidden. *)
VisibilityChange ==
  \E hidden \in BOOLEAN, fresh \in FreshBags :
    Commit([visibilitychange([World EXCEPT !.ret = FrameRet], hidden, fresh)
            EXCEPT !.ret = Returned("visibilitychange", hidden, 0)])

(* A 'blur' event of the window. *)
WindowBlur ==
  \E fresh \in FreshBags :
    Commit([blurOrFocus([World EXCEPT !.ret = FrameRet], FALSE, fresh)
            EXCEPT !.ret = Returned("blur", TRUE, 0)])

(* A 'focus' event of the window. *)
WindowFocus ==
  \E fresh \in FreshBags :
    Commit([blurOrFocus([World EXCEPT !.ret = FrameRet], TRUE, fresh)
            EXCEPT !.ret = Returned("focus", FALSE, 0)])

WindowNext ==
  \/ WindowKeyDown
  \/ Frame
  \/ PauseButton
  \/ StartNewGame
  \/ InputRestart
  \/ VisibilityChange
  \/ WindowBlur
  \/ WindowFocus

WindowSpec == InputInit /\ [][WindowNext]_vars

----------------------------------------------------------------------------
(* The loop alone, under frame jitter: no key is pressed, and the frames   *)
(* of the first 100 ms of a game come 1 ms less two units, 17 ms, 25 ms,   *)
(* 49 ms and two units, or 50 ms after one another.                        *)

JitterTimes ==
  {Double(12, -6), Double(204, 0), Double(300, 0), Double(588, 6), Double(600, 0)}

JitterFrame ==
  /\ engine.frameRequested
  /\ \E elapsed \in JitterTimes, fresh \in FreshBags :
       /\ atLeast(Double(1200, 0), Double(engine.total.hi + elapsed.hi,
                                          engine.total.lo + elapsed.lo))
       /\ Commit(frame(World, elapsed, fresh, "resume"))

LoopSpec == InputInit /\ [][JitterFrame]_vars

----------------------------------------------------------------------------
(* Properties *)

Range(seq) == { seq[i] : i \in DOMAIN seq }

Emitted(name) == \E i \in DOMAIN events : events[i].name = name

Falling == ~gl.isGameOver /\ Len(gl.clearingLines) = 0 /\ gl.currentPiece # Null

(* The rows of board whose index is not in R, in order, from row y on.     *)
RECURSIVE rowsKept(_, _, _)
rowsKept(board, R, y) ==
  IF y >= Len(board) THEN <<>>
  ELSE IF y \in R THEN rowsKept(board, R, y + 1)
  ELSE <<board[y + 1]>> \o rowsKept(board, R, y + 1)

rowsDeleted(board, R) ==
  [r \in 1..Cardinality(R) |-> emptyRow] \o rowsKept(board, R, 0)

(* C1: when the line clear completes for the set R of full rows of the     *)
(* board (1 to 4 of them), the board afterwards is the board before with   *)
(* exactly the rows of R deleted, the other rows in their order, and as    *)
(* many empty rows on top; it still has HEIGHT rows.                       *)
C1_ClearDeletesExactlyFullRows ==
  [][ ( /\ Len(gl.clearingLines) \in 1..4
        /\ gl.clearingLines = getFullLines(gl.board)
        /\ Len(gl'.clearingLines) = 0 )
      => ( /\ gl'.board = rowsDeleted(gl.board, Range(gl.clearingLines))
           /\ Len(gl'.board) = HEIGHT ) ]_vars

(* C1, the case that goes wrong: a clear of two or more rows has completed *)
(* and a full row is still on the board.                                   *)
C1_FullRowSurvivesClear ==
  /\ Emitted("linesCleared")
  /\ \E i \in DOMAIN events : events[i].name = "linesCleared" /\ events[i].count >= 2
  /\ Len(getFullLines(gl.board)) > 0

(* C2: while clearingLines is non-empty, a call of movePiece, rotatePiece  *)
(* or hardDrop, or an update that does not complete the clear, writes no   *)
(* board cell, does not move the piece, does not count a piece as placed,  *)
(* emits neither pieceLocked nor linesClearing, awards no score and does   *)
(* not set the clear timer back.                                           *)
C2_ClearingIgnoresCalls ==
  [][ ( /\ Len(gl.clearingLines) > 0
        /\ ret'.op \in {"movePiece", "rotatePiece", "hardDrop", "update"}
        /\ (ret'.op = "update" => Len(gl'.clearingLines) > 0) )
      => ( /\ gl'.board = gl.board
           /\ gl'.currentPiece = gl.currentPiece
           /\ gl'.gameStats.piecesPlaced = gl.gameStats.piecesPlaced
           /\ \A i \in DOMAIN events' :
                events'[i].name \notin {"pieceLocked", "linesClearing"}
           /\ sm'.score = sm.score
           /\ gl'.clearTimer >= gl.clearTimer ) ]_vars

(* C2, the case that goes wrong: a hard drop during the clear animation    *)
(* has locked the piece a second time and restarted the animation.         *)
C2_HardDropDuringClear ==
  /\ ret.op = "hardDrop"
  /\ Emitted("pieceLocked")
  /\ Emitted("linesClearing")
  /\ gl.gameStats.piecesPlaced = 2
  /\ gl.clearTimer = 0

(* C3: a successful move or rotation that takes a landed piece, before the *)
(* lock delay has elapsed, to a different position where it is landed too  *)
(* sets the lock timer to zero.                                            *)
C3_MoveResetsLockTimer ==
  [][ ( /\ Falling
        /\ hasLanded(gl.currentPiece, gl.board)
        /\ gl.lockTimer > 0
        /\ gl.lockTimer < Ms(LOCK_DELAY)
        /\ ret'.op \in {"movePiece", "rotatePiece"}
        /\ ret'.ok
        /\ gl'.currentPiece # gl.currentPiece
        /\ hasLanded(gl'.currentPiece, gl'.board) )
      => gl'.lockTimer = 0 ]_vars

(* C3, the case that goes wrong: a landed piece has just been moved or     *)
(* rotated and its lock timer still holds the time accumulated before.     *)
C3_LockTimerKeptByMove ==
  /\ Falling
  /\ ret.op \in {"movePiece", "rotatePiece"}
  /\ ret.ok
  /\ hasLanded(gl.currentPiece, gl.board)
  /\ gl.lockTimer > 0

(* C7: GameLogic enters game over in exactly the steps that spawn a piece  *)
(* at an invalid position, and game over is terminal: from then on no      *)
(* call of update, movePiece, rotatePiece or hardDrop changes the board,   *)
(* the current piece or the statistics (no step of the model is reset()).  *)
C7_GameOverAtInvalidSpawnAndTerminal ==
  [][ /\ (~gl.isGameOver /\ gl'.isGameOver)
           <=> ( /\ ~gl.isGameOver
                 /\ pg' # pg
                 /\ ~isValidPosition(gl'.currentPiece, gl'.board, 0, 0) )
      /\ gl.isGameOver
           => ( /\ gl'.isGameOver
                /\ gl'.board = gl.board
                /\ gl'.currentPiece = gl.currentPiece
                /\ gl'.gameStats = gl.gameStats ) ]_vars

(* C7's case: the game is over and a hard drop has been called since; it   *)
(* returned without locking anything.                                      *)
C7_HardDropAfterGameOver ==
  /\ gl.isGameOver
  /\ sm.gameState = "gameOver"
  /\ ret.op = "hardDrop"
  /\ ~Emitted("pieceLocked")
  /\ ~isValidPosition(gl.currentPiece, gl.board, 0, 0)

(* C8: GameEngine.restart() after a game over leaves GameLogic with an     *)
(* empty board, isGameOver false, timers at zero and no piece counted.     *)
C8_RestartResetsGameLogic ==
  [][ ret'.op = "restart"
      => ( /\ gl'.board = createEmptyBoard
           /\ ~gl'.isGameOver
           /\ gl'.fallTimer = 0
           /\ gl'.lockTimer = 0
           /\ gl'.gameStats.piecesPlaced = 0 ) ]_vars

(* C8, the case that goes wrong: after the restart the state manager is    *)
(* playing and the loop runs, an update has been called, and GameLogic is  *)
(* still over with the old stack on its board.                             *)
C8_StillOverAfterRestart ==
  /\ sm.gameState = "playing"
  /\ engine.isRunning
  /\ ret.op = "update"
  /\ gl.isGameOver
  /\ gl.board # createEmptyBoard

(* C9: no operation the engine dispatches throws, and while the state is   *)
(* playing and the engine runs, the loop has its next frame requested.     *)
C9_DispatchNeverThrows ==
  /\ ~ret.threw
  /\ (sm.gameState = "playing" /\ engine.isRunning) => engine.frameRequested

(* C9, the case that goes wrong: the hold key has been processed, the call *)
(* threw, and the running engine has no frame requested any more.          *)
C9_HoldKeyKillsLoop ==
  /\ ret.op = "holdPiece"
  /\ ret.threw
  /\ sm.gameState = "playing"
  /\ engine.isRunning
  /\ ~engine.frameRequested

rotationTarget(clockwise) ==
  canRotate(gl.currentPiece, gl.board, generatorRotatePiece(gl.currentPiece, clockwise))

(* C10: a movePiece or rotatePiece call that returns true had a valid      *)
(* target position and took the piece there, so a rejected call returns    *)
(* false; and a call that returns false emitted no event and left the      *)
(* board, the piece with its position, shape and rotation, the fall and    *)
(* lock timers and lastRotation (all of GameLogic, the generator and the   *)
(* score) as they were.                                                    *)
C10_RejectedCallChangesNothing ==
  [][ /\ ret'.op = "movePiece" =>
           IF ret'.ok
             THEN /\ Falling \/ Len(gl.clearingLines) > 0
                  /\ \E direction \in Directions :
                       /\ canMove(gl.currentPiece, gl.board, direction)
                       /\ gl'.currentPiece = movedPiece(gl.currentPiece, direction)
             ELSE events' = <<>> /\ gl' = gl /\ pg' = pg /\ sm' = sm
      /\ ret'.op = "rotatePiece" =>
           IF ret'.ok
             THEN /\ Falling \/ Len(gl.clearingLines) > 0
                  /\ \E clockwise \in BOOLEAN :
                       /\ rotationTarget(clockwise) # Null
                       /\ gl'.currentPiece = rotationTarget(clockwise)
             ELSE events' = <<>> /\ gl' = gl /\ pg' = pg /\ sm' = sm ]_vars

(* C10's case: a falling piece that a rotation has turned is landed with   *)
(* lock time accumulated, a move to the left is not possible, and the last *)
(* call was a movePiece that returned false.                               *)
C10_MoveRejectedWhileLanded ==
  /\ Falling
  /\ ret.op = "movePiece"
  /\ ~ret.ok
  /\ events = <<>>
  /\ gl.lastRotation
  /\ gl.lockTimer > 0
  /\ ~canMove(gl.currentPiece, gl.board, "left")

Types == Range(PIECE_TYPES)

Window(history, first) == { history[i] : i \in first..(first + Len(PIECE_TYPES) - 1) }

(* C4, as stated: every 7 consecutive draws, from any starting index,      *)
(* contain each of the 7 types (exactly once).                             *)
C4_EveryWindowHasAllTypes ==
  \A first \in 1..(Len(pg.pieceHistory) - Len(PIECE_TYPES) + 1) :
    Window(pg.pieceHistory, first) = Types

(* C4, amended: the draws 7k+1 .. 7k+7 since construction, for every k,    *)
(* contain each of the 7 types exactly once.                               *)
C4_BagWindowsHaveAllTypes ==
  \A k \in 0..(Len(pg.pieceHistory) \div Len(PIECE_TYPES) - 1) :
    Window(pg.pieceHistory, Len(PIECE_TYPES) * k + 1) = Types

(* C4's case: two whole bags have been drawn, each held every type, and    *)
(* the 7 draws starting at the second one repeat a type.                   *)
C4_TwoBagsDrawnWindowRepeats ==
  /\ ret.op = "getNextPiece"
  /\ Len(pg.pieceHistory) = MaxDraws
  /\ Window(pg.pieceHistory, 1) = Types
  /\ Window(pg.pieceHistory, Len(PIECE_TYPES) + 1) = Types
  /\ Window(pg.pieceHistory, 2) # Types

FilledCells(piece) ==
  { <<y, x>> \in (0..(Len(piece.shape) - 1)) \X (0..(Len(piece.shape[1]) - 1)) :
      piece.shape[y + 1][x + 1] # 0 }

(* What C5 says invalidates a position: a filled cell in a column off the  *)
(* board, in a row below it, or on a non-empty cell of the board.          *)
Invalidated(piece, board, offsetX, offsetY) ==
  \E cell \in FilledCells(piece) :
    LET boardX == piece.x + offsetX + cell[2]
        boardY == piece.y + offsetY + cell[1]
    IN \/ boardX < 0
       \/ boardX >= WIDTH
       \/ boardY >= HEIGHT
       \/ (boardY >= 0 /\ boardX \in 0..(WIDTH - 1) /\ boardY < HEIGHT
             /\ board[boardY + 1][boardX + 1] # 0)

ProbeOffsets == (-1)..1

(* C5: isValidPosition is false exactly when some filled cell, at the      *)
(* offset, has its column outside [0, WIDTH), its row >= HEIGHT, or lies   *)
(* on a non-empty cell of the board; a row above the board invalidates     *)
(* nothing.                                                                *)
C5_ValidIffNoCellInvalidated ==
  /\ \A offsetX \in ProbeOffsets, offsetY \in ProbeOffsets :
       isValidPosition(gl.currentPiece, gl.board, offsetX, offsetY)
         = ~Invalidated(gl.currentPiece, gl.board, offsetX, offsetY)
  /\ ret.op = "isValidPosition"
       => ret.ok = ~Invalidated(gl.currentPiece, gl.board, 0, 0)

(* C5's case: isValidPosition has answered true for a piece that has a     *)
(* filled cell above the top row and another one on the board.             *)
C5_ValidWithCellAboveBoard ==
  /\ ret.op = "isValidPosition"
  /\ ret.ok
  /\ \E cell \in FilledCells(gl.currentPiece) : gl.currentPiece.y + cell[1] < 0
  /\ \E cell \in FilledCells(gl.currentPiece) : gl.currentPiece.y + cell[1] >= 0
  /\ gl.board # createEmptyBoard

Drops == 0..(HEIGHT + 2)

RestsAt(d) ==
  /\ isValidPosition(gl.currentPiece, gl.board, 0, d)
  /\ ~isValidPosition(gl.currentPiece, gl.board, 0, d + 1)

(* C6, as stated: for a piece at a valid position, getHardDropDistance     *)
(* returns the greatest d at which the piece is valid and cannot go one    *)
(* row further down.                                                       *)
C6_DistanceIsGreatestRest ==
  (ret.op = "getHardDropDistance" /\ ret.ok)
    => /\ RestsAt(ret.n)
       /\ \A d \in Drops : RestsAt(d) => d <= ret.n

(* C6, amended: for a piece at a valid position, getHardDropDistance       *)
(* returns the first d >= 0 at which the piece cannot go one row further   *)
(* down: the piece is valid at every distance 0..d and invalid at d + 1.   *)
C6_DistanceIsFirstRest ==
  (ret.op = "getHardDropDistance" /\ ret.ok)
    => /\ ret.n >= 0
       /\ \A d \in 0..ret.n : isValidPosition(gl.currentPiece, gl.board, 0, d)
       /\ ~isValidPosition(gl.currentPiece, gl.board, 0, ret.n + 1)

(* C6's case: the distance has been computed for a valid piece over the    *)
(* overhang, and the piece would also fit and rest in the cavity below.    *)
C6_CavityBelowTheRest ==
  /\ ret.op = "getHardDropDistance"
  /\ ret.ok
  /\ gl.board = cavityBoard
  /\ \E d \in Drops : d > ret.n /\ RestsAt(d)

(* The corners of the T's box as offsets from its centre. *)
TopLeft == <<-1, -1>>

TopRight == <<1, -1>>

BottomLeft == <<-1, 1>>

BottomRight == <<1, 1>>

Corners == {TopLeft, TopRight, BottomLeft, BottomRight}

FrontCornersOf(rotation) ==
  CASE rotation = 0 -> {TopLeft, TopRight}
    [] rotation = 1 -> {TopRight, BottomRight}
    [] rotation = 2 -> {BottomLeft, BottomRight}
    [] rotation = 3 -> {TopLeft, BottomLeft}

CornerCell(corner) ==
  [x |-> gl.currentPiece.x + 1 + corner[1], y |-> gl.currentPiece.y + 1 + corner[2]]

NonEmpty(cell) ==
  /\ isWithinBounds(cell.x, cell.y)
  /\ gl.board[cell.y + 1][cell.x + 1] # 0

(* Occupied as C13 words it: out of bounds, on any side, or non-empty.     *)
OccupiedOrOutside == { c \in Corners : ~isWithinBounds(CornerCell(c).x, CornerCell(c).y)
                                       \/ NonEmpty(CornerCell(c)) }

(* Occupied with the rows above the board counted as free: left of the     *)
(* board, right of it, below it, or non-empty.                             *)
OccupiedOrBeyond ==
  { c \in Corners : \/ CornerCell(c).x < 0
                    \/ CornerCell(c).x >= WIDTH
                    \/ CornerCell(c).y >= HEIGHT
                    \/ NonEmpty(CornerCell(c)) }

IsTSpinBy(occupied) ==
  /\ Cardinality(occupied) >= 3
  /\ Cardinality(occupied \cap FrontCornersOf(gl.currentPiece.rotation)) >= 2

RotatedTProbed ==
  /\ ret.op = "checkTSpin"
  /\ ret.wasRotation
  /\ gl.currentPiece.type = "T"

(* C13, as stated: for a T piece whose last action was a rotation,         *)
(* checkTSpin answers T-Spin exactly when at least 3 of the four corners   *)
(* are out of bounds or non-empty and at least 2 of those are front        *)
(* corners of the piece's rotation.                                        *)
C13_TSpinByCornersOutOfBounds ==
  RotatedTProbed => (ret.result.isTSpin <=> IsTSpinBy(OccupiedOrOutside))

(* C13, amended: the same, with a corner counted as occupied when it is    *)
(* left of, right of or below the board or on a non-empty cell, and a      *)
(* corner above the top row counted as free.                               *)
C13_TSpinByCornersBesideOrBelow ==
  RotatedTProbed =>
    /\ ret.result.isTSpin <=> IsTSpinBy(OccupiedOrBeyond)
    /\ ret.result.occupiedCorners = Cardinality(OccupiedOrBeyond)
    /\ ret.ok = ret.result.isTSpin

(* C13's case: a T pointing down lies validly in the slot of the second    *)
(* row with its two upper corners above the board and its two lower ones   *)
(* on filled cells, and checkTSpin has answered for it.                    *)
C13_UpperCornersAboveBoard ==
  /\ RotatedTProbed
  /\ isValidPosition(gl.currentPiece, gl.board, 0, 0)
  /\ gl.currentPiece.y = -1
  /\ {BottomLeft, BottomRight} \subseteq OccupiedOrBeyond
  /\ OccupiedOrOutside = Corners
  /\ ~ret.result.isTSpin

C12_PreviewIsWhatIsDrawn ==
  /\ \A i \in DOMAIN events :
       (events[i].name = "preview" /\ events[i].count <= Len(pg.pieceHistory))
         => pg.pieceHistory[events[i].count] = events[i].action
  /\ ret.op = "previewNext" => Len(events) = ret.n

(* C12, the case that goes wrong: previewNext(8) was called when the live  *)
(* bag was empty, 8 draws followed, and the 8th is not the announced type. *)
C12_EighthPreviewNotDrawn ==
  /\ Len(events) = Len(PIECE_TYPES) + 1
  /\ events[Len(events)].count = Len(pg.pieceHistory)
  /\ ret.op = "getNextPiece"
  /\ \A i \in 1..Len(PIECE_TYPES) : pg.pieceHistory[events[i].count] = events[i].action
  /\ pg.pieceHistory[Len(pg.pieceHistory)] # events[Len(events)].action

(* The pairs of draws i < j of one type with no draw of that type between. *)
ConsecutiveOccurrences(history) ==
  { pair \in (DOMAIN history) \X (DOMAIN history) :
      /\ pair[1] < pair[2]
      /\ history[pair[1]] = history[pair[2]]
      /\ \A k \in (pair[1] + 1)..(pair[2] - 1) : history[k] # history[pair[1]] }

MaxDrought == 2 * (Len(PIECE_TYPES) - 1)

(* C17: between two consecutive occurrences of a type in the sequence of   *)
(* getNextPiece() results there are at most 12 draws of other types.       *)
C17_DroughtAtMostTwelve ==
  \A pair \in ConsecutiveOccurrences(pg.pieceHistory) :
    pair[2] - pair[1] - 1 <= MaxDrought

(* C17's case: a type was drawn first of one bag and last of the next,     *)
(* with 12 draws of other types between, and a draw has followed.          *)
C17_DroughtOfTwelve ==
  /\ ret.op = "getNextPiece"
  /\ Len(pg.pieceHistory) = MaxDraws
  /\ <<1, 2 * Len(PIECE_TYPES)>> \in ConsecutiveOccurrences(pg.pieceHistory)

(* C18: togglePause turns playing into paused with isPaused true and       *)
(* paused into playing with isPaused false, so that a second toggle        *)
(* restores both; in menu, gameOver and loading it changes neither.        *)
C18_TogglePauseFlipsOnlyInPlay ==
  [][ ret'.op = "togglePause"
      => /\ sm.gameState = "playing"
              => (sm'.gameState = "paused" /\ sm'.isPaused)
         /\ sm.gameState = "paused"
              => (sm'.gameState = "playing" /\ ~sm'.isPaused)
         /\ sm.gameState \in {"playing", "paused"}
              => /\ togglePause(sm').gameState = sm.gameState
                 /\ togglePause(sm').isPaused = sm.isPaused
         /\ sm.gameState \in {"menu", "gameOver", "loading"}
              => (sm'.gameState = sm.gameState /\ sm'.isPaused = sm.isPaused)
         /\ (ret.op = "togglePause" /\ ret.n = 1 /\ sm.gameState = "paused")
              => sm'.isPaused = ~ret.ok ]_vars

(* C18's case: a game in play with points scored has been toggled twice   *)
(* in a row, and it is in play and not paused again.                       *)
C18_ToggledTwice ==
  /\ ret.op = "togglePause"
  /\ ret.n = 2
  /\ sm.gameState = "playing"
  /\ ~sm.isPaused
  /\ sm.score > 0

BaseScore(action) ==
  CASE action = "single" -> SCORE_SINGLE
    [] action = "double" -> SCORE_DOUBLE
    [] action = "triple" -> SCORE_TRIPLE
    [] action = "tetris" -> SCORE_TETRIS

(* C19: updateScore(action, n) for a line-clear action adds the action's   *)
(* base points times the current level to score and n to lines; from a     *)
(* fresh state on, level = lines \div 10 + 1, level never goes down, and   *)
(* levelUp is emitted exactly when level goes up.                          *)
C19_ScoreLinesAndLevel ==
  [][ /\ ret'.op = "updateScore"
        => /\ sm'.score = sm.score + BaseScore(ret'.action) * sm.level
           /\ sm'.lines = sm.lines + ret'.n
           /\ (\E i \in DOMAIN events' : events'[i].name = "levelUp")
                <=> sm'.level > sm.level
      /\ sm'.level = sm'.lines \div LINES_PER_LEVEL + 1
      /\ ret'.op # "startGame" => sm'.level >= sm.level ]_vars

(* C19's case: a call of updateScore has just taken the level from 2 to 3  *)
(* and emitted levelUp.                                                    *)
C19_ReachedLevelThree ==
  /\ ret.op = "updateScore"
  /\ sm.level = 3
  /\ sm.lines >= 2 * LINES_PER_LEVEL
  /\ Emitted("levelUp")
  /\ sm.score > 2 * SCORE_SINGLE

(* C16: when a lock completes exactly one full row r, getFullLines of the  *)
(* board is <<r>> and that is the row the clear is started for; and when   *)
(* the update that ends the animation clears the one row r, row 0 of the   *)
(* board is empty afterwards, each row that was above r is one row lower,  *)
(* and the rows below r are the rows they were.                            *)
C16_SingleRowClearShiftsRowsAbove ==
  [][ /\ ( \E i \in 1..Len(events') :
              events'[i].name = "linesClearing" /\ events'[i].count = 1 )
         => \E r \in 0..(HEIGHT - 1) :
              /\ getFullLines(gl'.board) = <<r>>
              /\ gl'.clearingLines = <<r>>
              /\ \A y \in 0..(HEIGHT - 1) : isLineFull(gl'.board, y) <=> y = r
      /\ ( /\ ret'.op = "update"
           /\ Len(gl.clearingLines) = 1
           /\ Len(gl'.clearingLines) = 0 )
         => LET r == gl.clearingLines[1]
            IN /\ Len(gl'.board) = HEIGHT
               /\ gl'.board[1] = emptyRow
               /\ \A y \in 0..(r - 1) : gl'.board[y + 2] = gl.board[y + 1]
               /\ \A y \in (r + 1)..(HEIGHT - 1) : gl'.board[y + 1] = gl.board[y + 1]
    ]_vars

(* A game where the one full row has just been cleared by an update: the  *)
(* top row is empty and the stack's rows over it have come down by one.    *)
C16_SingleRowCleared ==
  /\ ret.op = "update"
  /\ Emitted("linesCleared")
  /\ \E i \in 1..Len(events) : events[i].name = "linesCleared" /\ events[i].count = 1
  /\ gl.gameStats.linesCleared = 1
  /\ gl.board[1] = emptyRow
  /\ gl.board[2] # emptyRow

(* The events of the step taken. *)
Emits(name) == \E i \in 1..Len(events') : events'[i].name = name

(* C14: the flag lastRotation follows the last successful action on the    *)
(* piece. A spawn and every translation of the piece (a player's move, a   *)
(* gravity step, a hard drop that moved the piece) leave it false, only a  *)
(* successful rotation raises it, and a rejected call leaves it as it was; *)
(* so at a lock it is true only if the last successful action since the    *)
(* spawn was a rotation. checkTSpin answers isTSpin = false when the flag   *)
(* is false or the piece is not a T, and no lock of a piece that was just  *)
(* translated is classified T-Spin.                                        *)
C14_LastRotationOnlyAfterRotation ==
  [][ /\ (Emits("pieceMoved") \/ Emits("pieceSpawned")) => ~gl'.lastRotation
      /\ (ret'.op = "hardDrop" /\ ret'.n > 0) => ~gl'.lastRotation
      /\ (gl'.lastRotation /\ ~gl.lastRotation)
           => (ret'.op = "rotatePiece" /\ ret'.ok)
      /\ (ret'.op \in {"movePiece", "rotatePiece"} /\ ~ret'.ok)
           => gl'.lastRotation = gl.lastRotation
      /\ \A i \in 1..Len(events') :
           (events'[i].name = "pieceLocked" /\ events'[i].action # "")
             => /\ gl.currentPiece.type = "T"
                /\ gl.lastRotation
                /\ ~Emits("pieceMoved")
                /\ ~Emits("pieceHardDropped")
      /\ gl'.currentPiece # Null
           => /\ ~checkTSpin(gl'.currentPiece, gl'.board, FALSE).isTSpin
              /\ gl'.currentPiece.type # "T"
                   => ~checkTSpin(gl'.currentPiece, gl'.board, TRUE).isTSpin
    ]_vars

(* A T piece moved over the well, turned upside down and then hard-dropped *)
(* one row into it: the drop translated the piece after its rotation, the  *)
(* row it completes is being cleared, so no spawn has reset the flag, and  *)
(* lastRotation is what lockPiece read: true.                              *)
C14_DroppedAfterRotationKeepsFlag ==
  /\ ret.op = "hardDrop"
  /\ ret.n > 0
  /\ Emitted("pieceHardDropped")
  /\ Emitted("pieceLocked")
  /\ Len(gl.clearingLines) > 0
  /\ gl.currentPiece.type = "T"
  /\ gl.lastRotation

(* C11: a key that arrives while the game is paused or in the menu is      *)
(* dropped: no call that an update makes for a key of the input buffer is  *)
(* made for a key that arrived in another game state than playing.         *)
C11_KeysOutsidePlayAreDropped ==
  ret.op = "update"
    => \A i \in 1..Len(ret.calls) : ret.calls[i].during = "playing"

(* An update after the game was resumed has moved the piece for a key that *)
(* was pressed while the game was paused.                                  *)
C11_PausedKeyMovesPiece ==
  /\ ret.op = "update"
  /\ sm.gameState = "playing"
  /\ Emitted("pieceMoved")
  /\ \E i \in 1..Len(ret.calls) :
       /\ ret.calls[i].op = "movePiece"
       /\ ret.calls[i].during = "paused"

(* C20: every call of movePiece, rotatePiece, hardDrop or holdPiece that   *)
(* processInput makes is made while the game state is playing, whatever    *)
(* the entries before it in the batch have done.                           *)
C20_DispatchOnlyWhilePlaying ==
  ret.op = "update"
    => \A i \in 1..Len(ret.calls) :
         ret.calls[i].op \in {"movePiece", "rotatePiece", "hardDrop", "holdPiece"}
           => ret.calls[i].gameState = "playing"

(* An update whose batch held the pause key and then the left key has      *)
(* paused the game and, after that, moved the piece.                       *)
C20_MovedAfterPauseInBatch ==
  /\ ret.op = "update"
  /\ sm.gameState = "paused"
  /\ Emitted("pieceMoved")
  /\ Len(ret.calls) = 2
  /\ ret.calls[1].op = "togglePause"
  /\ ret.calls[2].op = "movePiece"
  /\ ret.calls[2].gameState = "paused"

(* C22: hardDrop on a falling piece moves it down by exactly               *)
(* d = getHardDropDistance(piece, board), emits pieceHardDropped with      *)
(* distance d exactly when d > 0, locks the piece where it then is within  *)
(* the same call whatever the lock timer is, also when d = 0, and returns  *)
(* d.                                                                      *)
C22_HardDropMovesByDistanceAndLocks ==
  [][ (ret'.op = "hardDrop" /\ Falling)
        => LET d == getHardDropDistance(gl.currentPiece, gl.board)
               dropped == [gl.currentPiece EXCEPT !.y = gl.currentPiece.y + d]
           IN /\ ret'.n = d
              /\ ret'.ok = (d > 0)
              /\ gl'.gameStats.totalDropDistance = gl.gameStats.totalDropDistance + d
              /\ (d > 0) <=> Emits("pieceHardDropped")
              /\ \A i \in 1..Len(events') :
                   events'[i].name = "pieceHardDropped" => events'[i].count = d
              /\ Emits("pieceLocked")
              /\ gl'.gameStats.piecesPlaced = gl.gameStats.piecesPlaced + 1
              /\ gl'.board = placePieceOnBoard(gl.board, dropped)
              /\ ~isValidPosition(dropped, gl.board, 0, 1)
    ]_vars

(* A hard drop of a landed piece: the piece did not move and was locked    *)
(* at once, without waiting for the lock delay.                            *)
C22_LandedPieceDroppedAndLocked ==
  /\ ret.op = "hardDrop"
  /\ ret.n = 0
  /\ ~ret.ok
  /\ Emitted("pieceLocked")
  /\ ~Emitted("pieceHardDropped")
  /\ gl.gameStats.piecesPlaced = 1

(* How far the step taken moved the piece down before it locked it.        *)
LockedAfter ==
  IF ret'.op = "hardDrop" THEN ret'.n
  ELSE IF Emits("pieceMoved") THEN 1 ELSE 0

(* C23: lockPiece writes the current piece's filled cells that are on the  *)
(* board onto the board in the piece's colour and changes no other cell;   *)
(* in the same call, if no row is full the next piece is spawned, and      *)
(* otherwise the line clear starts with clearingLines the full rows, each  *)
(* once, clearTimer 0, and no spawn.                                       *)
C23_LockWritesPieceThenSpawnsOrClears ==
  [][ Emits("pieceLocked")
        => LET piece == [gl.currentPiece EXCEPT !.y = gl.currentPiece.y + LockedAfter]
               cells == { <<piece.y + cell[1], piece.x + cell[2]>> :
                            cell \in FilledCells(piece) }
               full == { y \in 0..(HEIGHT - 1) : isLineFull(gl'.board, y) }
           IN /\ \A y \in 0..(HEIGHT - 1), x \in 0..(WIDTH - 1) :
                   gl'.board[y + 1][x + 1] =
                     IF <<y, x>> \in cells THEN piece.color ELSE gl.board[y + 1][x + 1]
              /\ full = {}
                   => /\ Emits("pieceSpawned") \/ Emits("gameOver")
                      /\ gl'.currentPiece = gl.nextPiece
                      /\ Len(gl'.clearingLines) = 0
              /\ full # {}
                   => /\ Range(gl'.clearingLines) = full
                      /\ Len(gl'.clearingLines) = Cardinality(full)
                      /\ gl'.clearTimer = 0
                      /\ gl'.currentPiece = piece
                      /\ Emits("linesClearing")
                      /\ ~Emits("pieceSpawned")
    ]_vars

(* A lock that filled two rows at once: the line clear has started for     *)
(* both and the locked piece is still the current one.                     *)
C23_LockedIntoTwoFullRows ==
  /\ Emitted("pieceLocked")
  /\ Emitted("linesClearing")
  /\ Len(gl.clearingLines) = 2
  /\ gl.clearTimer = 0
  /\ gl.gameStats.piecesPlaced = 1

(* The current piece is the last but one piece drawn and the next piece    *)
(* the last one.                                                           *)
CurrentAndNextAreLastDrawn ==
  /\ Len(pg.pieceHistory) >= 2
  /\ gl.currentPiece.type = pg.pieceHistory[Len(pg.pieceHistory) - 1]
  /\ gl.nextPiece.type = pg.pieceHistory[Len(pg.pieceHistory)]

(* C25: a spawn makes the piece that was next the current one and draws    *)
(* exactly one piece, the new next one, and it leaves fallTimer and        *)
(* lockTimer 0 and lastRotation false; no other step draws a piece or      *)
(* changes which piece is current. So the pieces that become current are   *)
(* the pieces drawn, in the order drawn, none skipped or repeated.         *)
C25_SpawnPromotesNextAndDrawsOne ==
  [][ /\ CurrentAndNextAreLastDrawn
      /\ CurrentAndNextAreLastDrawn'
      /\ (Emits("pieceSpawned") \/ Emits("gameOver"))
           => /\ gl'.currentPiece = gl.nextPiece
              /\ Len(pg'.pieceHistory) = Len(pg.pieceHistory) + 1
              /\ SubSeq(pg'.pieceHistory, 1, Len(pg.pieceHistory)) = pg.pieceHistory
              /\ gl'.nextPiece = createPiece(pg'.pieceHistory[Len(pg'.pieceHistory)])
              /\ gl'.fallTimer = 0
              /\ gl'.lockTimer = 0
              /\ ~gl'.lastRotation
      /\ ~(Emits("pieceSpawned") \/ Emits("gameOver"))
           => /\ pg' = pg
              /\ gl'.nextPiece = gl.nextPiece
              /\ gl'.currentPiece.type = gl.currentPiece.type
    ]_vars

(* The second piece of a game has been spawned: it is the second piece     *)
(* drawn, and a third one has been drawn as the next.                      *)
C25_SecondPieceSpawned ==
  /\ Emitted("pieceSpawned")
  /\ gl.gameStats.piecesPlaced = 1
  /\ Len(pg.pieceHistory) = 3
  /\ gl.currentPiece = createPiece(pg.pieceHistory[2])
  /\ gl.fallTimer = 0

(* C26: in a tick of a game in play, after gravity has had its turn: if    *)
(* the piece is not landed the lock timer ends at 0 and nothing is locked; *)
(* if it is landed the timer grows by the tick's dt, and the piece is      *)
(* locked in that tick exactly when the timer has then reached LOCK_DELAY. *)
C26_LockTimerRunsWhileLanded ==
  [][ (ret'.op = "update" /\ Falling /\ sm.gameState = "playing")
        => \E deltaTime \in UpdateDts :
             LET piece == IF Emits("pieceMoved")
                            THEN movedPiece(gl.currentPiece, "down")
                            ELSE gl.currentPiece
                 landed == hasLanded(piece, gl.board)
                 timer == gl.lockTimer + deltaTime
             IN /\ Emits("pieceLocked") <=> (landed /\ timer >= Ms(LOCK_DELAY))
                /\ ~landed => gl'.lockTimer = 0
                /\ (landed /\ timer < Ms(LOCK_DELAY)) => gl'.lockTimer = timer
    ]_vars

(* A piece that sat landed for two ticks of 250 ms has been locked by the  *)
(* timer, in the tick in which the timer reached 500 ms.                   *)
C26_LockedByTimer ==
  /\ ret.op = "update"
  /\ Emitted("pieceLocked")
  /\ gl.gameStats.piecesPlaced = 1
  /\ gl.gameStats.totalDropDistance = 0

(* The rotated piece of the canRotate call just made, its table of wall    *)
(* kick offsets, and the positions of the table that are valid.            *)
ProbedRotation == generatorRotatePiece(gl.currentPiece, ret.clockwise)

ProbedOffsets ==
  LET key == <<gl.currentPiece.rotation, ProbedRotation.rotation>>
  IN IF gl.currentPiece.type = "I" THEN iPieceOffsets(key) ELSE standardOffsets(key)

Kicked(k) ==
  [ProbedRotation EXCEPT !.x = ProbedRotation.x + ProbedOffsets[k][1],
                         !.y = ProbedRotation.y + ProbedOffsets[k][2]]

ValidKicks ==
  { k \in 1..Len(ProbedOffsets) : isValidPosition(Kicked(k), gl.board, 0, 0) }

(* C27: canRotate returns the rotated piece unshifted when that position   *)
(* is valid; otherwise the rotated piece shifted by the first offset of    *)
(* the table (the I piece's own table, the standard one for the others)    *)
(* whose position is valid; and null exactly when the unshifted position   *)
(* and every offset of the table are invalid.                              *)
C27_CanRotateTakesFirstValidKick ==
  ret.op = "canRotate" =>
    LET unshifted == isValidPosition(ProbedRotation, gl.board, 0, 0)
    IN /\ unshifted => ret.result = ProbedRotation
       /\ (~unshifted /\ ValidKicks # {}) =>
            \E k \in ValidKicks :
              /\ \A j \in ValidKicks : k <= j
              /\ ret.result = Kicked(k)
       /\ (ret.result = Null) <=> (~unshifted /\ ValidKicks = {})

(* An I piece whose turn is blocked in place and at the first offset of    *)
(* its table was kicked to a later offset.                                 *)
C27_IPieceKickedPastFirstOffset ==
  /\ ret.op = "canRotate"
  /\ gl.currentPiece.type = "I"
  /\ ~isValidPosition(ProbedRotation, gl.board, 0, 0)
  /\ 1 \notin ValidKicks
  /\ ret.result # Null
  /\ ret.result = Kicked(2)

(* C24: every 'linesClearing' event carries the number of rows captured    *)
(* for clearing as its count, the count is between 1 and 4, and without a  *)
(* T-Spin its action is single, double, triple or tetris for 1, 2, 3, 4.   *)
C24_LinesClearingCountsOneToFour ==
  \A i \in DOMAIN events :
    events[i].name = "linesClearing" =>
      /\ events[i].count \in 1..4
      /\ events[i].action =
           (CASE events[i].count = 1 -> "single"
              [] events[i].count = 2 -> "double"
              [] events[i].count = 3 -> "triple"
              [] events[i].count = 4 -> "tetris"
              [] OTHER -> "none")
      /\ (\A j \in DOMAIN events : events[j].name = "linesClearing" => j <= i)
           => events[i].count = Len(gl.clearingLines)

(* A T piece locked into full rows was turned into the pocket below them   *)
(* and locked again while the first rows were still on the board: five     *)
(* rows were captured and announced as a single.                           *)
C24_FiveRowsClearingAsSingle ==
  /\ ret.op = "update"
  /\ \E i \in DOMAIN events :
       /\ events[i].name = "linesClearing"
       /\ events[i].count = 5
       /\ events[i].action = "single"
  /\ Len(gl.clearingLines) = 5
  /\ gl.gameStats.piecesPlaced = 2

(* The calls the key-press entries of the buffer stand for, in the order   *)
(* of their arrival.                                                       *)
RECURSIVE PressedCalls(_)
PressedCalls(buffer) ==
  IF buffer = <<>> THEN <<>>
  ELSE (IF Head(buffer).type = "keydown" /\ inputCall(Head(buffer).key) # "none"
          THEN <<inputCall(Head(buffer).key)>> ELSE <<>>)
       \o PressedCalls(Tail(buffer))

(* C21: a frame whose update reaches processInput while the game is being  *)
(* played makes one call for each key-press entry of the buffer, in the    *)
(* order of arrival, none for a key-release entry, and leaves the buffer   *)
(* empty.                                                                  *)
C21_BufferDrainedOncePerUpdate ==
  [][ (ret'.op = "update" /\ (ret'.ok \/ ret'.threw))
        => /\ [i \in 1..Len(ret'.calls) |-> ret'.calls[i].op]
                = PressedCalls(engine.inputBuffer)
           /\ engine'.inputBuffer = <<>>
    ]_vars

(* Two pause keys waited in the buffer: the second resumed the loop from   *)
(* inside the update, the loop ran processInput over the same buffer, and  *)
(* each of the two entries was dispatched twice.                           *)
C21_PauseKeysDispatchedTwice ==
  /\ ret.op = "update"
  /\ Len(ret.calls) = 4
  /\ \A i \in 1..4 : ret.calls[i].op = "togglePause"
  /\ engine.inputBuffer = <<>>

(* C28: after every frame the accumulator is at least 0 and below          *)
(* fixedTimeStep, and the frame has run at most 6 updates.                 *)
C28_AccumulatorBelowStepAfterFrame ==
  /\ atLeast(engine.accumulator, Double(0, 0))
  /\ ~atLeast(engine.accumulator, fixedTimeStepDouble)
  /\ engine.frameUpdates <= 6

(* A frame whose buffer held two pause keys has run gameLoop inside its    *)
(* update: both loops took their step off the accumulator, which is below  *)
(* 0 after the frame.                                                      *)
C28_AccumulatorNegativeAfterFrame ==
  /\ ret.op = "update"
  /\ engine.depth = 0
  /\ engine.frameUpdates = 2
  /\ ~atLeast(engine.accumulator, Double(0, 0))

(* C29: while no frame is clamped and the loop is not paused, the updates  *)
(* run since the accumulator was empty number floor(total /                *)
(* fixedTimeStep), whatever frames the total time came in.                 *)
C29_UpdatesAreFloorOfTotal ==
  engine.plain =>
    /\ atLeast(engine.total,
               Double(200 * engine.updates, engine.updates))
    /\ ~atLeast(engine.total,
                Double(200 * (engine.updates + 1), engine.updates + 1))

(* 50 ms in two frames, of 49 ms and two units and of 1 ms less two units, *)
(* have run three updates; 3 * fixedTimeStep is more than 50 ms.           *)
C29_ThreeUpdatesInFiftyMs ==
  /\ engine.plain
  /\ engine.total = Double(600, 0)
  /\ engine.updates = 3

C30_MovedAfterPauseReturned ==
  /\ ret.op = "update"
  /\ ~engine.isRunning
  /\ Emitted("pieceMoved")
  /\ \E i \in 1..Len(ret.calls) :
       /\ ret.calls[i].op = "movePiece"
       /\ ~ret.calls[i].running

C31_HiddenOrBlurredPausesOnly ==
  [][ ret'.op \in {"visibilitychange", "blur", "focus"}
        => IF ret'.ok /\ engine.isRunning /\ sm.gameState = "playing"
             THEN /\ sm' = [sm EXCEPT !.gameState = "paused", !.isPaused = TRUE]
                  /\ ~engine'.isRunning
                  /\ engine'.frameId = "none"
                  /\ engine'.pending <= engine.pending
                  /\ engine'.accumulator = engine.accumulator
                  /\ gl' = gl
             ELSE /\ sm' = sm
                  /\ engine' = engine
                  /\ gl' = gl
    ]_vars

(* The window lost the focus during play: the game is paused, the loop     *)
(* stopped and its frame cancelled.                                        *)
C31_PausedByBlur ==
  /\ ret.op = "blur"
  /\ sm.gameState = "paused"
  /\ ~engine.isRunning
  /\ ~engine.frameRequested

(* C37: at most one callback of gameLoop is pending at any time, and no    *)
(* key dispatched by a frame's update resumes the engine, which would      *)
(* call gameLoop from inside its own update.                               *)
C37_OneFramePendingNoReentry ==
  /\ engine.pending <= 1
  /\ ret.op \in {"gameLoop", "update"}
       => \A i \in 1..Len(ret.calls) :
            ~ /\ ret.calls[i].op = "togglePause"
              /\ ret.calls[i].gameState = "paused"
              /\ ~ret.calls[i].running

(* The pause key was dispatched inside a frame, whose gameLoop went on to  *)
(* request the next frame; the pause button then resumed the game, and     *)
(* resume()'s gameLoop requested another: two callbacks are pending.       *)
C37_TwoFramesPending ==
  /\ ret.op = "togglePause"
  /\ sm.gameState = "playing"
  /\ engine.isRunning
  /\ engine.pending = 2

(* C32: while a piece is falling and the ghost feature is on, the ghost    *)
(* has the current piece's x, shape and rotation, and its y is the current *)
(* piece's plus the hard-drop distance of the current piece on the board.  *)
C32_GhostIsCurrentPieceDropped ==
  (Falling /\ FEATURE_GHOST_PIECE)
    => /\ gl.ghostPiece # Null
       /\ gl.ghostPiece.x = gl.currentPiece.x
       /\ gl.ghostPiece.shape = gl.currentPiece.shape
       /\ gl.ghostPiece.rotation = gl.currentPiece.rotation
       /\ gl.ghostPiece.y =
            gl.currentPiece.y + getHardDropDistance(gl.currentPiece, gl.board)

(* A piece moved sideways over a stack of another height: its ghost is     *)
(* under it, lower than the piece.                                         *)
C32_GhostFollowsMove ==
  /\ Falling
  /\ ret.op = "movePiece"
  /\ ret.ok
  /\ Emitted("pieceMoved")
  /\ gl.ghostPiece.x = gl.currentPiece.x
  /\ gl.ghostPiece.y > gl.currentPiece.y

(* C33: while a piece is falling, none of its filled cells is in a column  *)
(* off the board, in a row below the board, or on a non-empty cell of the  *)
(* board.                                                                  *)
C33_FallingPieceIsAtValidPosition ==
  Falling => ~Invalidated(gl.currentPiece, gl.board, 0, 0)

(* A falling piece stands against the stack or the wall: the move into it  *)
(* was refused, and the piece is where it was, on empty cells.             *)
C33_MoveIntoStackRefused ==
  /\ Falling
  /\ ret.op = "movePiece"
  /\ ~ret.ok
  /\ \/ Invalidated(gl.currentPiece, gl.board, -1, 0)
     \/ Invalidated(gl.currentPiece, gl.board, 1, 0)
  /\ ~Invalidated(gl.currentPiece, gl.board, 0, 0)

(* C34: whenever a piece is falling the board holds no full row: the full  *)
(* rows a lock creates are gone when the next piece has spawned.           *)
C34_NoFullRowWhileFalling ==
  Falling => getFullLines(gl.board) = <<>>

(* C34, the case that goes wrong: the clear has completed, the next piece  *)
(* has spawned and falls over a board that still holds a full row.         *)
C34_PieceFallsOverFullRow ==
  /\ Falling
  /\ ret.op = "update"
  /\ Emitted("linesCleared")
  /\ Emitted("pieceSpawned")
  /\ getFullLines(gl.board) # <<>>

(* C35: during the clearing phase a call of movePiece, rotatePiece or      *)
(* hardDrop changes neither the captured rows nor the time accumulated     *)
(* since the lock, and an update removes the rows and leaves the phase     *)
(* exactly when the accumulated time reaches LINE_CLEAR_DELAY.             *)
C35_ClearCompletesAfterDelay ==
  [][ Len(gl.clearingLines) > 0
      => ( /\ ret'.op \in {"movePiece", "rotatePiece", "hardDrop"}
                => ( /\ gl'.clearingLines = gl.clearingLines
                     /\ gl'.clearTimer = gl.clearTimer )
           /\ ret'.op = "update"
                => \E deltaTime \in UpdateDts :
                     IF gl.clearTimer + deltaTime >= Ms(LINE_CLEAR_DELAY)
                     THEN Len(gl'.clearingLines) = 0
                     ELSE /\ gl'.clearingLines = gl.clearingLines
                          /\ gl'.clearTimer = gl.clearTimer + deltaTime ) ]_vars

(* C35, the case that goes wrong: the animation had run for a tick when a  *)
(* hard drop started it again, and the tick after it, more than            *)
(* LINE_CLEAR_DELAY after the first lock, has not completed the clear.     *)
C35_ClearProlongedByHardDrop ==
  /\ ret.op = "update"
  /\ Len(gl.clearingLines) > 0
  /\ gl.gameStats.piecesPlaced = 2
  /\ gl.clearTimer < Ms(LINE_CLEAR_DELAY)


(* The sum of the counts of the 'linesClearing' events of a step.          *)
RECURSIVE linesClearingCount(_)
linesClearingCount(emitted) ==
  IF emitted = <<>> THEN 0
  ELSE (IF Head(emitted).name = "linesClearing" THEN Head(emitted).count ELSE 0)
       + linesClearingCount(Tail(emitted))

(* C39: while the game is being played, the state manager's score is a     *)
(* defined number, is not negative, and no gravity step, move, drop or     *)
(* line clear makes it smaller.                                            *)
C39_ScoreIsNumberAndNeverDecreases ==
  [][ ( /\ sm.gameState = "playing"
        /\ ret'.op \in {"movePiece", "rotatePiece", "hardDrop", "update"} )
      => ( /\ sm'.scoreKind = "number"
           /\ sm'.score >= 0
           /\ sm.scoreKind = "number" => sm'.score >= sm.score ) ]_vars

(* C39, the case that goes wrong: a hard drop has completed a row, the     *)
(* score manager holds the points of the drop and of the clear, and the    *)
(* state manager's score is NaN.                                           *)
C39_ScoreIsNaNAfterClear ==
  /\ sm.gameState = "playing"
  /\ ret.op = "hardDrop"
  /\ Emitted("linesClearing")
  /\ engine.scoreManager.score >= SCORE_SINGLE + SCORE_HARD_DROP * ret.n
  /\ sm.scoreKind = "NaN"

(* C40: the state manager's lines grow in a step by the counts of the      *)
(* step's 'linesClearing' events and by nothing else, and a step without   *)
(* such an event changes neither lines nor level.                          *)
C40_LinesCountClearedRowsOnly ==
  [][ ( /\ sm.gameState = "playing"
        /\ ret'.op \in {"movePiece", "rotatePiece", "hardDrop", "update"} )
      => ( /\ sm'.linesKind = "number"
           /\ sm'.lines = sm.lines + linesClearingCount(events')
           /\ linesClearingCount(events') = 0 => sm'.level = sm.level ) ]_vars

(* C40, the case that goes wrong: a hard drop that completed no row has    *)
(* added its distance to the state manager's lines.                        *)
C40_HardDropCountedAsLines ==
  /\ sm.gameState = "playing"
  /\ ret.op = "hardDrop"
  /\ ~Emitted("linesClearing")
  /\ ret.n > 0
  /\ sm.linesKind = "number"
  /\ sm.lines >= ret.n

(* C38: the first entry getNextPieces returns has the type of nextPiece,   *)
(* the piece that becomes current at the next spawn, and the entries after *)
(* it are the pieces the generator hands out after it, in order.           *)
C38_PreviewStartsWithNextPiece ==
  ret.op = "getNextPieces"
    => /\ Len(events) = 3
       /\ events[1].action = gl.nextPiece.type
       /\ \A i \in 2..Len(events) : events[i].action = (pg.bag \o pg.nextBag)[i - 1]

(* C38, the case that goes wrong: the first entry is the piece at the      *)
(* front of the generator's bag, the one after nextPiece, and it is of     *)
(* another type than nextPiece.                                            *)
C38_PreviewSkipsNextPiece ==
  /\ ret.op = "getNextPieces"
  /\ Len(pg.bag) > 0
  /\ events[1].action = Head(pg.bag)
  /\ events[1].action # gl.nextPiece.type
  /\ gl.gameStats.piecesPlaced = 1

(* The pieces the game left alone has placed while one is falling: the    *)
(* stack reaches the top with the second.                                  *)
TickPieces == 0..1

(* C36: with ticks arriving and no input, every falling piece is           *)
(* eventually locked (the count of placed pieces grows), and until then a  *)
(* tick moves it down by one row exactly when the fall timer reaches the   *)
(* fall interval and the piece has not landed.                             *)
C36_EveryPieceIsLocked ==
  /\ \A n \in TickPieces :
       (Falling /\ gl.gameStats.piecesPlaced = n) ~> (gl.gameStats.piecesPlaced > n)
  /\ [][ ( /\ Falling
           /\ ret'.op = "update"
           /\ gl'.gameStats.piecesPlaced = gl.gameStats.piecesPlaced )
         => ( /\ gl'.currentPiece.x = gl.currentPiece.x
              /\ gl'.currentPiece.y =
                   gl.currentPiece.y
                   + (IF /\ gl.fallTimer + ret'.n >= gl'.fallSpeed
                         /\ ~hasLanded(gl.currentPiece, gl.board)
                        THEN 1 ELSE 0) ) ]_vars

(* C36, a case: a piece that fell by gravity alone was locked by the lock  *)
(* timer in this tick, and the piece spawned after it is falling.          *)
C36_LockedByTimerThenSpawned ==
  /\ ret.op = "update"
  /\ Emitted("pieceLocked")
  /\ Emitted("pieceSpawned")
  /\ Falling
  /\ gl.gameStats.piecesPlaced = 1
  /\ gl.lockTimer = 0

====
